---------------------------- MODULE Spec2Model ----------------------------
(***************************************************************************)
(* Models of the components, each with its own specification:             *)
(*   Spec, LiveSpec  the change-event coalescer of ProjectInstance;        *)
(*   SyncSpec        one BaseSyncEngine.run_sync call;                     *)
(*   LifeSpec        several run_sync calls on one engine;                 *)
(*   StoreSpec       a StateManager and its two files;                     *)
(*   RequestSpec     one ConfluenceClient._request call;                   *)
(*   RequestLiveSpec the same with the calling thread kept running;        *)
(*   MonitorSpec     a started FileMonitor;                                *)
(*   StopSpec        the coalescer with a stop_monitoring call;            *)
(*   WatchSpec       SyncApplication.run_watch (single-project mode);      *)
(*   ManagerSpec     MultiProjectManager.run_all_watch.                    *)
(*                                                                         *)
(* The change-event coalescer of ProjectInstance                           *)
(* (src/multi_project_manager.py, _on_file_change and its nested           *)
(* _arm_timer / _drain_dirty) as a state machine of threads.               *)
(*                                                                         *)
(* Threads:                                                                *)
(*   - the watcher callback thread, which runs _on_file_change(notes_dirty)*)
(*     (FileMonitor._fire_if_idle delivers the callbacks one `delay` apart,*)
(*     so invocations of _on_file_change do not overlap each other);       *)
(*   - one thread per fired threading.Timer, which runs _drain_dirty;      *)
(*     Timer.cancel() has no effect on a timer that has already fired, so  *)
(*     several _drain_dirty callbacks can be in flight at once;            *)
(*   - an external holder of sync_lock (as in the tests, which acquire and *)
(*     release p.sync_lock around the events).                             *)
(*                                                                         *)
(* Every "with self._dirty_lock:" block is one atomic step, and so is      *)
(* every operation on sync_lock; a step also takes along the statements    *)
(* after it that touch only the thread's own locals.  Attributes created   *)
(* by the lazy init (lines 169-176) read as False / None before the first  *)
(* event.                                                                  *)
(***************************************************************************)
EXTENDS Integers, Sequences, FiniteSets, Bags, TLC

\* ------------------------------------------------------------------ bounds
\* threading.Timer objects alive at once; _drain_dirty callbacks in flight at
\* once (a timer expires only when there is room for its callback); events
\* delivered in a run; the count of run_sync calls saturates at MaxCalls
MaxTimers == 2
MaxDrains == 2
MaxEvents == 2
MaxCalls == 3

\* ------------------------------------------------- constants of the program
\* MERGE_WINDOW_S = 1.2 and RETRY_S = 1.0 seconds, in tenths of a second
MERGE_WINDOW_S == 12
RETRY_S == 10
\* self._dirty_timer = None
NoTimer == 0
\* a threading.Timer that is not pending (never started, fired or cancelled)
NotPending == 0

Timers == 1..MaxTimers

VARIABLES
    dirty,          \* self._dirty
    notes_dirty,    \* self._notes_dirty
    dirty_timer,    \* self._dirty_timer: the handle, a timer or NoTimer
    timer,          \* timer[t]: NotPending, or the delay t is pending with
    sync_lock,      \* self.sync_lock.locked()
    ext_holds,      \* the external holder is between acquire() and release()
    ev_pc,          \* position of the watcher callback in _on_file_change
    drains,         \* the _drain_dirty callbacks in flight: a bag of records
                    \*   (position and locals of each)
    evLog,          \* history: the notes_dirty argument of every event delivered
    nCalls,         \* history: engine.run_sync invocations begun (saturates at MaxCalls)
    winStart,       \* history: Len(evLog) when the flags were last snapshotted
    burst,          \* history: "open" until a timer fires; "closed" if every event so far
                    \*   was fully delivered before the first timer fired; "during" if
                    \*   every event after those was recorded while the first run_sync
                    \*   invocation was executing; else "broken"
    extEver,        \* history: another holder has acquired sync_lock
    failedEver,     \* history: some run_sync invocation raised
    busyNd          \* history: _notes_dirty as the last lock-busy attempt left it
                    \*   (these three are kept only until the burst is broken)

flags == <<dirty, notes_dirty>>
tmr == <<dirty_timer, timer>>
lck == <<sync_lock, ext_holds>>
scen == <<burst, extEver, failedEver, busyNd>>
hist == <<evLog, nCalls, winStart, scen>>

vars == <<flags, tmr, lck, ev_pc, drains, hist>>

\* --------------------------------------------- state of one run_sync call
\* (src/core/sync_engine.py, BaseSyncEngine with its StateManager and its
\* ConfluenceClient; the coalescer above hands one call at a time to it)
VARIABLES
    args,           \* the arguments is_startup, dry_run, notes_dirty of the call
    target_folder,  \* self.target_folder on disk: exists, the valid files in it
    local_files,    \* what _scan_local_files finds: filename -> hash
    attachments,    \* the page's attachments on the server: filename -> [id, hash]
    page,           \* the page on the server: version and body
    cache_file,     \* self.state.cache_file on disk: exists, content
    history_file,   \* self.state.history_file on disk: exists, content
    state_remote,   \* self.state._remote_state: filename -> [id, hash]
    state_history,  \* self.state._history, newest first
    appearance_set, \* self._appearance_set
    pc,             \* position of the calling thread in run_sync
    remote_state,   \* run_sync's local remote_state
    diff,           \* run_sync's local diff
    delete_futures, \* the delete pool: filename -> state of its task
    upload_futures, \* the upload pool: filename -> state of its task
    calls,          \* history: requests made to the client, by kind
    at_call,        \* history: the state store, the disk and the page when
                    \*   run_sync was called
    current_version,\* the local current_version of _update_page and of
                    \*   run_notes_only_sync; 0 while it is unbound
    run,            \* history: number of the run_sync call on this engine
    obs,            \* history: what the client was asked and answered
    prev            \* history: how the previous run_sync call went

inputs == <<args, target_folder, local_files, at_call, run, prev>>
disk == <<cache_file, history_file>>
store == <<state_remote, state_history>>
pools == <<delete_futures, upload_futures>>
evars == <<inputs, attachments, page, disk, store, appearance_set, pc,
           remote_state, diff, pools, calls, current_version, obs>>

\* ------------------------------------------------ state of a StateManager
\* (src/core/state_manager.py) and of its two files
VARIABLES
    cfg_keep,       \* the keep argument of add_history_entry (sync.history_keep)
    sm,             \* the StateManager object: _remote_state, _history,
                    \*   _load_warnings
    files,          \* cache_file and history_file on disk: exists, text
    tmp,            \* the NamedTemporaryFile of _atomic_write: text written
                    \*   so far, text to write
    sm_pc,          \* position of the thread that uses the StateManager
    sgh             \* history: files and object at the last load and save

svars == <<cfg_keep, sm, files, tmp, sm_pc, sgh>>

\* ------------------------------ state of one ConfluenceClient._request call
\* (src/core/confluence_client.py)
VARIABLES
    ok_status,      \* the ok_status argument
    attempt,        \* the loop variable; 0 before the first iteration
    rq_pc,          \* position of the calling thread in _request
    sent,           \* history: the outcome of each session.request call made
    last_exc,       \* the local last_exc
    raised,         \* the exception that left _request
    slept           \* history: the whole seconds of each time.sleep call

rvars == <<ok_status, attempt, rq_pc, sent, last_exc, raised, slept>>

\* --------------------------------------------------- state of a FileMonitor
\* (src/core/file_monitor.py) that watches one asset folder and one caption
\* file
VARIABLES
    inside,         \* the caption file's directory lies in the watched folder
    now,            \* time.time(), in whole seconds since start()
    _notes_dirty,   \* FileMonitor._notes_dirty
    _last_event_time, \* FileMonitor._last_event_time
    _timer,         \* FileMonitor._timer: when it is due, and the event
                    \*   that armed it
    late,           \* timers that cancel() reached after they had expired
    fired,          \* history: the callbacks made, each with the event that
                    \*   armed its timer
    last_event,     \* history: the event a handler received last
    cb              \* history: the callbacks counted, the number of events
                    \*   at the last one and its argument, the OR of the
                    \*   notes_dirty arguments of _schedule since

mvars == <<inside, now, _notes_dirty, _last_event_time, _timer, late, fired,
           last_event, cb>>

\* ------------------------------------------- the callers around the watcher
VARIABLES
    stop_pc         \* position of the thread that calls
                    \*   ProjectInstance.stop_monitoring; "watching" before

pvars == <<stop_pc>>

\* ------------------------------------ the single-project application (main.py)
VARIABLES
    app_pc,         \* position of the main thread in SyncApplication.run_watch;
                    \*   "none": no application is running
    app_sync_lock,  \* SyncApplication.sync_lock: "free" or "held"
    watcher_syncs,  \* history: calls engine.run_sync(is_startup=False) made
                    \*   by SyncApplication._on_file_change
    callback_errors \* history: exceptions of the callback that _fire_if_idle
                    \*   caught and printed

avars == <<app_pc, app_sync_lock, watcher_syncs, callback_errors>>

\* ------------------------------- the multi-project manager (run_all_watch)
VARIABLES
    mgr_pc,         \* position of the main thread in run_all_watch; "none":
                    \*   no manager is running
    mgr_i,          \* the project the loop it is in has reached
    initial_ok,     \* project -> what its run_initial_sync returned, "none"
                    \*   before
    monitors,       \* project -> "none", "started" (start_monitoring has
                    \*   started its FileMonitor) or "stopped"
    watcher_runs    \* history: project -> run_sync calls its watcher made

gvars == <<mgr_pc, mgr_i, initial_ok, monitors, watcher_runs>>

\* what the steps of one component leave alone
but_coalescer == <<evars, svars, rvars, mvars, pvars, avars, gvars>>
but_engine == <<vars, svars, rvars, mvars, pvars, avars, gvars>>
but_store == <<vars, evars, rvars, mvars, pvars, avars, gvars>>
but_request == <<vars, evars, svars, mvars, pvars, avars, gvars>>
but_monitor == <<vars, evars, svars, rvars, pvars, avars, gvars>>
but_stop == <<evars, svars, rvars, mvars, avars, gvars>>
but_watch == <<vars, evars, svars, rvars, pvars, gvars>>
but_manager == <<vars, evars, svars, rvars, mvars, pvars, avars>>

all_vars == <<vars, evars, svars, rvars, mvars, pvars, avars,
              gvars>>

\* a _drain_dirty callback as its timer starts it; winFrom and evAtSnap are
\* history: the callback's snapshot took the events winFrom+1..evAtSnap (those
\* recorded after the previous snapshot and before its own)
NewDrain ==
    [pc |-> "check", current_notes_dirty |-> FALSE, failed |-> FALSE,
     winFrom |-> 0, evAtSnap |-> 0]

\* the coalescer before the first event
CoalescerInit ==
    /\ dirty = FALSE
    /\ notes_dirty = FALSE
    /\ dirty_timer = NoTimer
    /\ timer = [t \in Timers |-> NotPending]
    /\ sync_lock = FALSE
    /\ ext_holds = FALSE
    /\ ev_pc = "idle"
    /\ drains = EmptyBag
    /\ evLog = <<>>
    /\ nCalls = 0
    /\ winStart = 0
    /\ burst = "open"
    /\ extEver = FALSE
    /\ failedEver = FALSE
    /\ busyNd = "none"

\* ----------------------------------------------------------------- helpers
Min(S) == CHOOSE x \in S : \A y \in S : x <= y

\* mutant of MergeNotes: the flag follows the latest event
MergeNotes_Overwrite(old, nd) == nd

\* "if notes_dirty: self._notes_dirty = True" (the flag only rises)
MergeNotes(old, nd) == old \/ nd

\* mutant of Cancelled: the stored timer is not cancelled
Cancelled_Not == timer

\* Timer.cancel() on the stored handle (a no-op on a timer that already fired)
Cancelled ==
    IF dirty_timer # NoTimer
    THEN [timer EXCEPT ![dirty_timer] = NotPending]
    ELSE timer

\* mutant of ArmTimer: the new timer is stored but never started
ArmTimer_NotStarted(delay_s) ==
    /\ \E t \in Timers : Cancelled[t] = NotPending
    /\ LET t == Min({u \in Timers : Cancelled[u] = NotPending})
       IN /\ timer' = Cancelled
          /\ dirty_timer' = t

\* _arm_timer(delay_s): under _dirty_lock, cancel the stored timer, create and
\* start a new one, store it as the handle
ArmTimer(delay_s) ==
    /\ \E t \in Timers : Cancelled[t] = NotPending
    /\ LET t == Min({u \in Timers : Cancelled[u] = NotPending})
       IN /\ timer' = [Cancelled EXCEPT ![t] = delay_s]
          /\ dirty_timer' = t

\* the callbacks in flight, and those at one of the positions pcs
Running == BagToSet(drains)
At(pcs) == {r \in Running : r.pc \in pcs}
\* how many callbacks are at one of the positions pcs
CountAt(pcs) == BagCardinality([r \in At(pcs) |-> drains[r]])

\* callback r moves on as r2; callback r returns
Step(r, r2) == drains' = (drains (-) SetToBag({r})) (+) SetToBag({r2})
Return(r) == drains' = drains (-) SetToBag({r})

\* the positions at which a callback holds sync_lock (acquire to release)
InLock == {"snapshot", "running", "except_arm", "release"}

\* history: number of events delivered; OR of the flags of the events from..to
nEvents == Len(evLog)
OrOf(from, to) == \E i \in from..to : evLog[i]
\* history: OR of the flags of the events recorded since the last snapshot
winOr == OrOf(winStart + 1, Len(evLog))
everNotes == OrOf(1, Len(evLog))

\* history: an event overlapped or followed a timer expiry
Broken ==
    /\ burst' = "broken"
    /\ extEver' = FALSE
    /\ failedEver' = FALSE
    /\ busyNd' = "none"

\* history: the first run_sync invocation is executing
FirstRoundRunning == nCalls = 1 /\ At({"running"}) # {}

Bump(n) == IF n < MaxCalls THEN n + 1 ELSE n

\* ------------------------------------------------- _on_file_change (events)
\* lines 248-251: mark dirty; notes_dirty only rises
EventMark(nd) ==
    /\ ev_pc = "idle"
    /\ Len(evLog) < MaxEvents
    /\ dirty' = TRUE
    /\ notes_dirty' = MergeNotes(notes_dirty, nd)
    /\ ev_pc' = "arm"
    /\ evLog' = Append(evLog, nd)
    /\ IF burst = "open"
       THEN UNCHANGED scen
       ELSE IF burst \in {"closed", "during"} /\ FirstRoundRunning
            THEN burst' = "during" /\ UNCHANGED <<extEver, failedEver, busyNd>>
            ELSE Broken
    /\ UNCHANGED <<tmr, lck, drains, nCalls, winStart>>

\* line 253: _arm_timer(MERGE_WINDOW_S)
EventArm ==
    /\ ev_pc = "arm"
    /\ ArmTimer(MERGE_WINDOW_S)
    /\ ev_pc' = "idle"
    /\ UNCHANGED <<flags, lck, drains, hist>>

\* --------------------------------------------------------- the timer thread
\* a pending timer expires: its thread starts running _drain_dirty
Fire(t) ==
    /\ timer[t] # NotPending
    /\ BagCardinality(drains) < MaxDrains
    /\ drains' = drains (+) SetToBag({NewDrain})
    /\ timer' = [timer EXCEPT ![t] = NotPending]
    /\ IF burst = "open"
       THEN IF ev_pc = "idle"
            THEN burst' = "closed" /\ UNCHANGED <<extEver, failedEver, busyNd>>
            ELSE Broken
       ELSE UNCHANGED scen
    /\ UNCHANGED <<flags, lck, dirty_timer, ev_pc, evLog, nCalls, winStart>>

\* lines 195-197: "if not self._dirty: return"
DrainCheck(r) ==
    /\ r.pc = "check"
    /\ IF dirty THEN Step(r, [r EXCEPT !.pc = "acquire"]) ELSE Return(r)
    /\ UNCHANGED <<flags, tmr, lck, ev_pc, hist>>

\* mutant of DrainAcquire: the result of acquire() is ignored
DrainAcquire_Unchecked(r) ==
    /\ r.pc = "acquire"
    /\ Step(r, [r EXCEPT !.pc = "snapshot"])
    /\ sync_lock' = TRUE
    /\ UNCHANGED <<flags, tmr, ext_holds, ev_pc, hist>>

\* line 199: self.sync_lock.acquire(blocking=False)
DrainAcquire(r) ==
    /\ r.pc = "acquire"
    /\ IF sync_lock
       THEN /\ Step(r, [r EXCEPT !.pc = "busy_arm"])
            /\ busyNd' = (IF burst = "broken" THEN "none"
                          ELSE IF notes_dirty THEN "T" ELSE "F")
            /\ UNCHANGED sync_lock
       ELSE /\ Step(r, [r EXCEPT !.pc = "snapshot"])
            /\ sync_lock' = TRUE
            /\ UNCHANGED busyNd
    /\ UNCHANGED <<flags, tmr, ext_holds, ev_pc, evLog, nCalls, winStart,
                   burst, extEver, failedEver>>

\* mutant of DrainBusyArm: the callback returns without re-arming
DrainBusyArm_Drop(r) ==
    /\ r.pc = "busy_arm"
    /\ Return(r)
    /\ UNCHANGED <<flags, tmr, lck, ev_pc, hist>>

\* mutant of DrainBusyArm: the busy attempt consumes the captions flag
DrainBusyArm_ClearNotes(r) ==
    /\ r.pc = "busy_arm"
    /\ ArmTimer(RETRY_S)
    /\ notes_dirty' = FALSE
    /\ Return(r)
    /\ UNCHANGED <<dirty, lck, ev_pc, hist>>

\* lines 200-205: lock busy: _arm_timer(RETRY_S); return
DrainBusyArm(r) ==
    /\ r.pc = "busy_arm"
    /\ ArmTimer(RETRY_S)
    /\ Return(r)
    /\ UNCHANGED <<flags, lck, ev_pc, hist>>

\* mutant of DrainSnapshot: _dirty is not cleared
DrainSnapshot_KeepDirty(r) ==
    /\ r.pc = "snapshot"
    /\ notes_dirty' = FALSE
    /\ Step(r, [r EXCEPT !.pc = "running", !.current_notes_dirty = notes_dirty,
                         !.winFrom = winStart, !.evAtSnap = Len(evLog)])
    /\ winStart' = Len(evLog)
    /\ nCalls' = Bump(nCalls)
    /\ UNCHANGED <<dirty, tmr, lck, ev_pc, evLog, scen>>

\* mutant of DrainSnapshot: _notes_dirty is read but not cleared
DrainSnapshot_KeepNotes(r) ==
    /\ r.pc = "snapshot"
    /\ dirty' = FALSE
    /\ Step(r, [r EXCEPT !.pc = "running", !.current_notes_dirty = notes_dirty,
                         !.winFrom = winStart, !.evAtSnap = Len(evLog)])
    /\ winStart' = Len(evLog)
    /\ nCalls' = Bump(nCalls)
    /\ UNCHANGED <<notes_dirty, tmr, lck, ev_pc, evLog, scen>>

\* lines 209-222: read both flags and clear them, then
\* engine.run_sync(is_startup=False, notes_dirty=current_notes_dirty) begins
DrainSnapshot(r) ==
    /\ r.pc = "snapshot"
    /\ dirty' = FALSE
    /\ notes_dirty' = FALSE
    /\ Step(r, [r EXCEPT !.pc = "running", !.current_notes_dirty = notes_dirty,
                         !.winFrom = winStart, !.evAtSnap = Len(evLog)])
    /\ winStart' = Len(evLog)
    /\ nCalls' = Bump(nCalls)
    /\ UNCHANGED <<tmr, lck, ev_pc, evLog, scen>>

\* run_sync returns normally; finally (line 235): self.sync_lock.release()
DrainReturn(r) ==
    /\ r.pc = "running"
    /\ sync_lock' = FALSE
    /\ Step(r, [r EXCEPT !.pc = "needs_more"])
    /\ UNCHANGED <<flags, tmr, ext_holds, ev_pc, hist>>

\* mutant of DrainRaise: the handler does not mark dirty again
DrainRaise_NoRemark(r) ==
    /\ r.pc = "running"
    /\ Step(r, [r EXCEPT !.pc = "except_arm", !.failed = TRUE])
    /\ failedEver' = (burst # "broken")
    /\ UNCHANGED <<flags, tmr, lck, ev_pc, evLog, nCalls, winStart,
                   burst, extEver, busyNd>>

\* run_sync raises; lines 224-231: except Exception: self._dirty = True
DrainRaise(r) ==
    /\ r.pc = "running"
    /\ dirty' = TRUE
    /\ Step(r, [r EXCEPT !.pc = "except_arm", !.failed = TRUE])
    /\ failedEver' = (burst # "broken")
    /\ UNCHANGED <<notes_dirty, tmr, lck, ev_pc, evLog, nCalls, winStart,
                   burst, extEver, busyNd>>

\* line 232: _arm_timer(RETRY_S)
DrainExceptArm(r) ==
    /\ r.pc = "except_arm"
    /\ ArmTimer(RETRY_S)
    /\ Step(r, [r EXCEPT !.pc = "release"])
    /\ UNCHANGED <<flags, lck, ev_pc, hist>>

\* line 235 (finally, after the except block): self.sync_lock.release()
DrainRelease(r) ==
    /\ r.pc = "release"
    /\ sync_lock' = FALSE
    /\ Step(r, [r EXCEPT !.pc = "needs_more"])
    /\ UNCHANGED <<flags, tmr, ext_holds, ev_pc, hist>>

\* lines 237-240: needs_more = self._dirty; return unless it is set
DrainNeedsMore(r) ==
    /\ r.pc = "needs_more"
    /\ IF dirty THEN Step(r, [r EXCEPT !.pc = "followup_arm"]) ELSE Return(r)
    /\ UNCHANGED <<flags, tmr, lck, ev_pc, hist>>

\* line 245: _arm_timer(MERGE_WINDOW_S)
DrainFollowupArm(r) ==
    /\ r.pc = "followup_arm"
    /\ ArmTimer(MERGE_WINDOW_S)
    /\ Return(r)
    /\ UNCHANGED <<flags, lck, ev_pc, hist>>

\* ---------------------------------------------- another holder of sync_lock
\* p.sync_lock.acquire() by another holder
ExtAcquire ==
    /\ ~sync_lock
    /\ sync_lock' = TRUE
    /\ ext_holds' = TRUE
    /\ extEver' = (burst # "broken")
    /\ UNCHANGED <<flags, tmr, ev_pc, drains, evLog, nCalls, winStart,
                   burst, failedEver, busyNd>>

\* p.sync_lock.release() by that holder
ExtRelease ==
    /\ ext_holds
    /\ sync_lock' = FALSE
    /\ ext_holds' = FALSE
    /\ UNCHANGED <<flags, tmr, ev_pc, drains, hist>>

\* no run_sync call is being followed step by step: the engine's state rests
NoCall ==
    /\ args = [is_startup |-> FALSE, dry_run |-> FALSE, notes_dirty |-> FALSE]
    /\ target_folder = [exists |-> FALSE, files |-> <<>>]
    /\ local_files = <<>> /\ attachments = <<>>
    /\ page = [version |-> 1, assets |-> {}, history |-> <<"page">>]
    /\ cache_file = [exists |-> FALSE, content |-> <<>>]
    /\ history_file = [exists |-> FALSE, content |-> <<>>]
    /\ state_remote = <<>> /\ state_history = <<>>
    /\ appearance_set = FALSE
    /\ pc = "idle"
    /\ remote_state = <<>>
    /\ diff = [to_add |-> {}, to_update |-> {}, to_delete |-> {}]
    /\ delete_futures = <<>> /\ upload_futures = <<>>
    /\ calls = <<>>
    /\ at_call = <<>>
    /\ current_version = 0 /\ run = 0
    /\ obs = <<>> /\ prev = <<>>

Next ==
    \/ (\E nd \in BOOLEAN : EventMark(nd)) /\ UNCHANGED but_coalescer
    \/ (EventArm) /\ UNCHANGED but_coalescer
    \/ (\E t \in Timers : Fire(t)) /\ UNCHANGED but_coalescer
    \/ (\E r \in Running : DrainCheck(r)) /\ UNCHANGED but_coalescer
    \/ (\E r \in Running : DrainAcquire(r)) /\ UNCHANGED but_coalescer
    \/ (\E r \in Running : DrainBusyArm(r)) /\ UNCHANGED but_coalescer
    \/ (\E r \in Running : DrainSnapshot(r)) /\ UNCHANGED but_coalescer
    \/ (\E r \in Running : DrainReturn(r)) /\ UNCHANGED but_coalescer
    \/ (\E r \in Running : DrainRaise(r)) /\ UNCHANGED but_coalescer
    \/ (\E r \in Running : DrainExceptArm(r)) /\ UNCHANGED but_coalescer
    \/ (\E r \in Running : DrainRelease(r)) /\ UNCHANGED but_coalescer
    \/ (\E r \in Running : DrainNeedsMore(r)) /\ UNCHANGED but_coalescer
    \/ (\E r \in Running : DrainFollowupArm(r)) /\ UNCHANGED but_coalescer
    \/ (ExtAcquire) /\ UNCHANGED but_coalescer
    \/ (ExtRelease) /\ UNCHANGED but_coalescer

\* no StateManager is being followed step by step
NoStore ==
    /\ cfg_keep = 0
    /\ sm = <<>> /\ files = <<>> /\ tmp = <<>> /\ sgh = <<>>
    /\ sm_pc = "idle"

\* no _request call is being followed step by step
NoRequest ==
    /\ ok_status = {} /\ attempt = 0
    /\ rq_pc = "idle"
    /\ sent = <<>> /\ slept = <<>>
    /\ last_exc = "None" /\ raised = "None"

\* stop_monitoring is not called
NoStop == stop_pc = "watching"

\* no MultiProjectManager in the process
NoManager ==
    /\ mgr_pc = "none" /\ mgr_i = 0
    /\ initial_ok = <<>> /\ monitors = <<>> /\ watcher_runs = <<>>

\* no SyncApplication in the process
NoApp ==
    /\ app_pc = "none" /\ app_sync_lock = "free"
    /\ watcher_syncs = 0 /\ callback_errors = 0

\* no FileMonitor is being followed step by step
NoMonitor ==
    /\ inside = FALSE /\ now = 0
    /\ _notes_dirty = FALSE /\ _last_event_time = 0
    /\ _timer = <<>> /\ late = {} /\ fired = <<>> /\ last_event = <<>>
    /\ cb = <<>>

\* the coalescer before the first event, everything else at rest
Init ==
    /\ CoalescerInit /\ NoCall /\ NoStore /\ NoRequest /\ NoMonitor /\ NoStop /\ NoApp
    /\ NoManager

Spec == Init /\ [][Next]_all_vars

\* Scheduling: a thread that can take its next step eventually takes it (the
\* watcher thread finishes _on_file_change, a started timer that is not
\* cancelled expires, a _drain_dirty callback runs on), and every run_sync
\* invocation ends, normally or by raising.  Nothing is assumed about when
\* events arrive or about the other holder of sync_lock.
Fairness ==
    /\ WF_vars(EventArm)
    /\ \A t \in Timers : WF_vars(Fire(t))
    /\ WF_vars(\E r \in Running : DrainCheck(r))
    /\ WF_vars(\E r \in Running : DrainAcquire(r))
    /\ WF_vars(\E r \in Running : DrainBusyArm(r))
    /\ WF_vars(\E r \in Running : DrainSnapshot(r))
    /\ WF_vars(\E r \in Running : DrainReturn(r) \/ DrainRaise(r))
    /\ WF_vars(\E r \in Running : DrainExceptArm(r))
    /\ WF_vars(\E r \in Running : DrainRelease(r))
    /\ WF_vars(\E r \in Running : DrainNeedsMore(r))
    /\ WF_vars(\E r \in Running : DrainFollowupArm(r))

LiveSpec == Init /\ [][Next]_all_vars /\ Fairness

TypeOK ==
    /\ dirty \in BOOLEAN /\ notes_dirty \in BOOLEAN
    /\ dirty_timer \in Timers \cup {NoTimer}
    /\ timer \in [Timers -> {NotPending, MERGE_WINDOW_S, RETRY_S}]
    /\ sync_lock \in BOOLEAN /\ ext_holds \in BOOLEAN
    /\ ev_pc \in {"idle", "arm"}
    /\ IsABag(drains) /\ BagCardinality(drains) <= MaxDrains
    /\ Len(evLog) \in 0..MaxEvents /\ nCalls \in 0..MaxCalls
    /\ winStart \in 0..Len(evLog)
    /\ burst \in {"open", "closed", "during", "broken"}
    /\ extEver \in BOOLEAN /\ failedEver \in BOOLEAN
    /\ busyNd \in {"none", "F", "T"}


(***************************************************************************)
(* Model of one BaseSyncEngine.run_sync call (src/core/sync_engine.py)     *)
(* with the StateManager (src/core/state_manager.py) it writes to.         *)
(*                                                                         *)
(* The calling thread walks through run_sync; the tasks of the delete pool *)
(* and of the upload pool run on worker threads, at most max_workers at a  *)
(* time, and the calling thread takes their results as they complete.      *)
(* Every request to Confluence can fail: _delete_file and _upload_file     *)
(* turn a failure into False / None, _download_and_hash into None, and a   *)
(* failed page read, page push, listing or appearance call raises out of   *)
(* run_sync.  A dict is a function on the set of its keys, a hex digest a  *)
(* sequence of character codes.                                            *)
(***************************************************************************)

\* ------------------------------------------------------------------ bounds
\* filenames; config sync.max_workers (of the delete pool and of the upload
\* pool); config sync.history_keep
MaxFiles == 2
max_workers == 2
history_keep == 2

Files == 1..MaxFiles

\* Digests are written with one hex digit, by its character code: "1" is
\* <<49>>, "a" is <<97>>, "A" is <<65>>.
\* what hashlib's hexdigest() returns (HashCalculator.calculate): lowercase hex
HexDigests == {<<49>>, <<97>>}
\* the digest of a local file's content (the remote hashes vary against it)
LocalDigests == {<<97>>}
\* what a cache file can hold as a hash: hex in either case
StoredHashes == HexDigests \cup {<<65>>}

\* str.lower() on one character, on a string
LowerChar(c) == IF c \in 65..90 THEN c + 32 ELSE c
lower(s) == [i \in DOMAIN s |-> LowerChar(s[i])]

\* HashCalculator.compare
compare(hash1, hash2) == lower(hash1) = lower(hash2)

\* the id an attachment has in the cache file, in the server's listing, and
\* the id an upload returns
OldId(f) == <<"old", f>>
SrvId(f) == <<"srv", f>>
NewId(f) == <<"new", f>>

\* dicts with keys among Files, the value of key f drawn from V[f]
Dicts(V) ==
    UNION {{g \in [S -> UNION {V[f] : f \in S}] : \A f \in S : g[f] \in V[f]} :
           S \in SUBSET DOMAIN V}

\* mutant of update_remote_file: an existing entry keeps its hash
update_remote_file_KeepHash(m, filename, attachment_id, file_hash) ==
    [f \in DOMAIN m \cup {filename} |->
        IF f = filename
        THEN [id |-> attachment_id,
              hash |-> IF f \in DOMAIN m THEN m[f].hash ELSE file_hash]
        ELSE m[f]]

\* self._remote_state[filename] = {"id": attachment_id, "hash": file_hash}
update_remote_file(m, filename, attachment_id, file_hash) ==
    [f \in DOMAIN m \cup {filename} |->
        IF f = filename THEN [id |-> attachment_id, hash |-> file_hash] ELSE m[f]]

\* mutant of remove_remote_file: the entry stays
remove_remote_file_Keeps(m, filename) == m

\* if filename in self._remote_state: del self._remote_state[filename]
remove_remote_file(m, filename) == [f \in DOMAIN m \ {filename} |-> m[f]]

\* self._history[:keep], with "if keep <= 0: return []"
get_history_slice(h, keep) ==
    IF keep <= 0 THEN <<>> ELSE SubSeq(h, 1, IF Len(h) < keep THEN Len(h) ELSE keep)

\* self._history.insert(0, entry); self._history = self._history[:keep]
add_history_entry(h, log, keep) ==
    IF keep > 0 THEN get_history_slice(<<log>> \o h, keep) ELSE <<log>> \o h

\* ConfluenceClient.parse_history_from_page: the first max_count rows of the
\* page's history table
parse_history_from_page(pg, max_count) ==
    SubSeq(pg.history, 1, IF Len(pg.history) < max_count THEN Len(pg.history) ELSE max_count)

\* mutant of calculate_diff: to_delete takes every remote name
calculate_diff_DeleteAll(local_state, remote) ==
    [to_add |-> {name \in DOMAIN local_state : name \notin DOMAIN remote},
     to_delete |-> DOMAIN remote,
     to_update |-> {name \in DOMAIN local_state :
                        /\ name \in DOMAIN remote
                        /\ local_state[name].hash # remote[name].hash}]

\* SyncDiff(to_add, to_update, to_delete) of _calculate_diff; the lists hold
\* each name once, so they are sets here
calculate_diff(local_state, remote) ==
    [to_add |-> {name \in DOMAIN local_state : name \notin DOMAIN remote},
     to_delete |-> {name \in DOMAIN remote : name \notin DOMAIN local_state},
     to_update |-> {name \in DOMAIN local_state :
                        /\ name \in DOMAIN remote
                        /\ local_state[name].hash # remote[name].hash}]

\* SyncDiff.has_changes
has_changes(d) == d.to_add # {} \/ d.to_update # {} \/ d.to_delete # {}

\* line 145
no_img_change == ~has_changes(diff) /\ ~args.is_startup

\* line 132: the full-resync path is taken
FullPath == args.is_startup \/ ~cache_file.exists

\* StateManager.save: both files are replaced by what the store holds
Saved(rs, hs) ==
    /\ cache_file' = [exists |-> TRUE, content |-> rs]
    /\ history_file' = [exists |-> TRUE, content |-> hs]

\* one more request of a kind (of a kind and a filename)
Called(kind) == [calls EXCEPT ![kind] = @ + 1]
CalledFor(kind, f) == [calls EXCEPT ![kind][f] = @ + 1]

NoCalls ==
    [get_page_content |-> 0, get_all_attachments |-> 0, update_page_content |-> 0,
     set_page_appearance |-> 0,
     delete_attachment |-> [f \in Files |-> 0],
     upload_attachment |-> [f \in Files |-> 0]]

\* nothing observed of the client yet: the run in which the version was read,
\* the version number of the last PUT, whether a set_page_appearance call
\* has returned, where the run raised, edits of the page by others, the
\* attachments whose download gave no result in the run's full resync
NoObs ==
    [read_run |-> 0, put |-> 0, appearance_ok |-> FALSE, raised_at |-> "none",
     edits |-> 0, missed |-> {}]

\* no previous call on this engine
NoPrev ==
    [diff |-> [to_add |-> {}, to_update |-> {}, to_delete |-> {}],
     local_files |-> <<>>, raised_at |-> "none", applied |-> FALSE,
     cache_file |-> [exists |-> FALSE, content |-> <<>>], missed |-> {}]

\* mutant of update_page_content: the PUT carries the version that was read
update_page_content_SameVersion(version) == version

\* update_page_content, line 197: the version number of the PUT payload
update_page_content(version) == version + 1

\* the server's attachment listing after an upload (a delete) of filename
uploaded(atts, filename, entry) ==
    [f \in DOMAIN atts \cup {filename} |-> IF f = filename THEN entry ELSE atts[f]]
deleted(atts, filename) == [f \in DOMAIN atts \ {filename} |-> atts[f]]

\* the target folder as a call can find it: missing, or there with some
\* readable files that _is_valid_file accepts
Folders(F) ==
    {[exists |-> FALSE, files |-> <<>>]} \cup
    {[exists |-> TRUE, files |-> d] : d \in Dicts([f \in F |-> [hash : LocalDigests]])}

\* _scan_local_files: a missing folder gives a warning and the empty dict
scan_local_files(folder) ==
    IF ~folder.exists THEN <<>> ELSE folder.files

\* A freshly constructed engine (StateManager._load has read the two files,
\* _appearance_set = False) on which run_sync is called, the coalescer at
\* rest.  The attachment
\* listing is read only on the full-resync path.  A cache file met by a
\* startup call holds the hashes an earlier run recorded from the local files;
\* the one a later call works from can have any hash in it.  save() writes
\* the two files together, so they exist together.
SyncInit ==
    /\ CoalescerInit /\ NoStore /\ NoRequest /\ NoMonitor /\ NoStop /\ NoApp
    /\ NoManager
    /\ args \in [is_startup : BOOLEAN, dry_run : BOOLEAN, notes_dirty : BOOLEAN]
    /\ target_folder \in Folders(Files)
    /\ local_files = scan_local_files(target_folder)
    /\ cache_file \in
          {[exists |-> FALSE, content |-> <<>>]} \cup
          {[exists |-> TRUE, content |-> c] :
              c \in Dicts([f \in Files |->
                              [id : {OldId(f)},
                               hash : IF args.is_startup THEN LocalDigests
                                      ELSE StoredHashes]])}
    /\ history_file =
          IF cache_file.exists THEN [exists |-> TRUE, content |-> <<"old">>]
          ELSE [exists |-> FALSE, content |-> <<>>]
    /\ page = [version |-> 1, assets |-> {}, history |-> <<"page">>]
    /\ attachments \in
          IF FullPath
          THEN Dicts([f \in Files |-> [id : {SrvId(f)}, hash : HexDigests]])
          ELSE {<<>>}
    /\ state_remote = cache_file.content
    /\ state_history = history_file.content
    /\ appearance_set = FALSE
    /\ pc = "called"
    /\ remote_state = <<>>
    /\ diff = [to_add |-> {}, to_update |-> {}, to_delete |-> {}]
    /\ delete_futures = <<>> /\ upload_futures = <<>>
    /\ calls = NoCalls
    /\ at_call = [state_remote |-> state_remote, state_history |-> state_history,
                  cache_file |-> cache_file, history_file |-> history_file,
                  page |-> page]
    /\ current_version = 0 /\ run = 1
    /\ obs = NoObs /\ prev = NoPrev

\* lines 132-143 on the cached path: remote_state is the store's dict
CachedRemoteState ==
    /\ pc = "called" /\ ~FullPath
    /\ remote_state' = state_remote
    /\ diff' = calculate_diff(local_files, state_remote)
    /\ pc' = "decide"
    /\ UNCHANGED <<inputs, attachments, current_version, obs, page, disk, store, appearance_set, pools, calls>>

\* lines 132-143 on the full-resync path: _full_cloud_sync reads the page,
\* replaces the store's history by the page's, lists the attachments and
\* hashes them; the downloads in `failed` give no result.  Its result is
\* run_sync's local remote_state only.
FullCloudSync(failed) ==
    /\ pc = "called" /\ FullPath
    /\ state_history' = parse_history_from_page(page, history_keep)
    /\ remote_state' = [f \in DOMAIN attachments \ failed |-> attachments[f]]
    /\ diff' = calculate_diff(local_files, remote_state')
    /\ calls' = [calls EXCEPT !.get_page_content = @ + 1, !.get_all_attachments = @ + 1]
    /\ obs' = [obs EXCEPT !.missed = failed]
    /\ pc' = "decide"
    /\ UNCHANGED <<inputs, attachments, current_version, page, disk, state_remote, appearance_set, pools>>

\* _full_cloud_sync raises: at get_page_content (line 229), or at
\* get_all_attachments (line 236) after the history was replaced
FullCloudSyncRaise(at) ==
    /\ pc = "called" /\ FullPath
    /\ \/ /\ at = "get_page_content"
          /\ calls' = Called("get_page_content")
          /\ UNCHANGED state_history
       \/ /\ at = "get_all_attachments"
          /\ calls' = [calls EXCEPT !.get_page_content = @ + 1,
                                    !.get_all_attachments = @ + 1]
          /\ state_history' = parse_history_from_page(page, history_keep)
    /\ obs' = [obs EXCEPT !.raised_at = at]
    /\ pc' = "raised"
    /\ UNCHANGED <<inputs, attachments, current_version, page, disk, state_remote,
                   appearance_set, remote_state, diff, pools>>

\* mutant of ShortCircuit: the state store is saved before returning
ShortCircuit_Saves ==
    /\ pc = "decide" /\ no_img_change /\ ~args.notes_dirty
    /\ Saved(state_remote, state_history)
    /\ pc' = "returned"
    /\ UNCHANGED <<inputs, attachments, current_version, obs, page, store, appearance_set, remote_state, diff,
                   pools, calls>>

\* lines 146-148: nothing changed and no notes update
ShortCircuit ==
    /\ pc = "decide" /\ no_img_change /\ ~args.notes_dirty
    /\ pc' = "returned"
    /\ UNCHANGED <<inputs, attachments, current_version, obs, page, disk, store, appearance_set, remote_state, diff,
                   pools, calls>>

\* lines 150-154 and 195: run_notes_only_sync reads the page version
NotesOnlyRead ==
    /\ pc = "decide" /\ no_img_change /\ args.notes_dirty
    /\ current_version' = page.version
    /\ calls' = Called("get_page_content")
    /\ obs' = [obs EXCEPT !.read_run = run]
    /\ pc' = "notes_push"
    /\ UNCHANGED <<inputs, attachments, page, disk, store, appearance_set,
                   remote_state, diff, pools>>

\* mutant of NotesOnlySync: the page is pushed but the state is not saved
NotesOnlySync_NoSave ==
    /\ pc = "notes_push" /\ current_version = page.version
    /\ LET h == add_history_entry(state_history, "notes", history_keep) IN
        /\ state_history' = h
        /\ page' = [version |-> update_page_content(current_version),
                    assets |-> DOMAIN local_files,
                    history |-> get_history_slice(h, history_keep)]
    /\ calls' = Called("update_page_content")
    /\ obs' = [obs EXCEPT !.put = update_page_content(current_version)]
    /\ pc' = "returned"
    /\ UNCHANGED <<inputs, attachments, current_version, disk, state_remote,
                   appearance_set, remote_state, diff, pools>>

\* lines 197-212: run_notes_only_sync adds the history entry, rebuilds the
\* body, pushes it (the server takes a PUT whose version follows the page's)
\* and saves
NotesOnlySync ==
    /\ pc = "notes_push" /\ current_version = page.version
    /\ LET h == add_history_entry(state_history, "notes", history_keep) IN
        /\ state_history' = h
        /\ page' = [version |-> update_page_content(current_version),
                    assets |-> DOMAIN local_files,
                    history |-> get_history_slice(h, history_keep)]
        /\ Saved(state_remote, h)
    /\ calls' = Called("update_page_content")
    /\ obs' = [obs EXCEPT !.put = update_page_content(current_version)]
    /\ pc' = "returned"
    /\ UNCHANGED <<inputs, attachments, current_version, state_remote,
                   appearance_set, remote_state, diff, pools>>

\* run_notes_only_sync raises: at get_page_content (line 195), or at
\* update_page_content (line 211, also when the page's version has moved on)
\* after the history entry was added
NotesOnlySyncRaise(at) ==
    /\ \/ /\ at = "get_page_content"
          /\ pc = "decide" /\ no_img_change /\ args.notes_dirty
          /\ calls' = Called("get_page_content")
          /\ obs' = [obs EXCEPT !.raised_at = at]
          /\ UNCHANGED state_history
       \/ /\ at = "update_page_content"
          /\ pc = "notes_push"
          /\ calls' = Called("update_page_content")
          /\ obs' = [obs EXCEPT !.raised_at = at,
                                !.put = update_page_content(current_version)]
          /\ state_history' = add_history_entry(state_history, "notes", history_keep)
    /\ pc' = "raised"
    /\ UNCHANGED <<inputs, attachments, current_version, page, disk, state_remote,
                   appearance_set, remote_state, diff, pools>>

\* lines 160-163: the dry run prints the diff and returns
DryRun ==
    /\ pc = "decide" /\ ~no_img_change /\ args.dry_run
    /\ pc' = "returned"
    /\ UNCHANGED <<inputs, attachments, current_version, obs, page, disk, store, appearance_set, remote_state, diff,
                   pools, calls>>

\* _execute_operations, lines 474-482: the delete pool is created and every
\* name of to_delete submitted (no pool when to_delete is empty)
SubmitDeletes ==
    /\ pc = "decide" /\ ~no_img_change /\ ~args.dry_run
    /\ delete_futures' = [f \in diff.to_delete |-> "pending"]
    /\ pc' = "deleting"
    /\ UNCHANGED <<inputs, attachments, current_version, obs, page, disk, store, appearance_set, remote_state, diff,
                   upload_futures, calls>>

\* tasks of a pool that occupy a worker
Busy(futures) == {f \in DOMAIN futures : futures[f] = "running"}
\* the calling thread has taken every result: the "with" block ends
Joined(futures) == \A f \in DOMAIN futures : futures[f] \in {"got_True", "got_False"}

\* a worker of the delete pool takes a task: _delete_file calls
\* client.delete_attachment
DeleteStart(f) ==
    /\ pc = "deleting" /\ f \in DOMAIN delete_futures
    /\ delete_futures[f] = "pending"
    /\ Cardinality(Busy(delete_futures)) < max_workers
    /\ delete_futures' = [delete_futures EXCEPT ![f] = "running"]
    /\ calls' = CalledFor("delete_attachment", f)
    /\ UNCHANGED <<inputs, attachments, current_version, obs, page, disk, store, appearance_set, pc, remote_state, diff,
                   upload_futures>>

\* _delete_file returns: True, or False when the request failed (lines 532-544)
DeleteFinish(f, ok) ==
    /\ pc = "deleting" /\ f \in DOMAIN delete_futures
    /\ delete_futures[f] = "running"
    /\ delete_futures' = [delete_futures EXCEPT ![f] = IF ok THEN "True" ELSE "False"]
    /\ attachments' = IF ok THEN deleted(attachments, f) ELSE attachments
    /\ UNCHANGED <<inputs, current_version, obs, page, disk, store, appearance_set, pc,
                   remote_state, diff, upload_futures, calls>>

\* mutant of DeleteResult: a failed delete raises out of run_sync
DeleteResult_Raises(f) ==
    /\ pc = "deleting" /\ f \in DOMAIN delete_futures
    /\ delete_futures[f] \in {"True", "False"}
    /\ IF delete_futures[f] = "True"
       THEN /\ state_remote' = remove_remote_file(state_remote, f)
            /\ delete_futures' = [delete_futures EXCEPT ![f] = "got_True"]
            /\ UNCHANGED pc
       ELSE /\ UNCHANGED state_remote
            /\ delete_futures' = [delete_futures EXCEPT ![f] = "got_False"]
            /\ pc' = "raised"
    /\ UNCHANGED <<inputs, attachments, current_version, obs, page, disk, state_history, appearance_set, remote_state,
                   diff, upload_futures, calls>>

\* lines 484-487: as_completed hands a finished delete to the calling thread
DeleteResult(f) ==
    /\ pc = "deleting" /\ f \in DOMAIN delete_futures
    /\ delete_futures[f] \in {"True", "False"}
    /\ IF delete_futures[f] = "True"
       THEN /\ state_remote' = remove_remote_file(state_remote, f)
            /\ delete_futures' = [delete_futures EXCEPT ![f] = "got_True"]
       ELSE /\ UNCHANGED state_remote
            /\ delete_futures' = [delete_futures EXCEPT ![f] = "got_False"]
    /\ UNCHANGED <<inputs, attachments, current_version, obs, page, disk, state_history, appearance_set, pc, remote_state,
                   diff, upload_futures, calls>>

\* mutant of SubmitUploads: the uploads are submitted without waiting for the
\* delete pool
SubmitUploads_NoJoin ==
    /\ pc = "deleting"
    /\ upload_futures' = [f \in diff.to_add \cup diff.to_update |-> "pending"]
    /\ pc' = "uploading"
    /\ UNCHANGED <<inputs, attachments, current_version, obs, page, disk, store, appearance_set, remote_state, diff,
                   delete_futures, calls>>

\* lines 490-506: after the delete pool's "with" block, the upload pool is
\* created and every name of to_add + to_update submitted
SubmitUploads ==
    /\ pc = "deleting" /\ Joined(delete_futures)
    /\ upload_futures' = [f \in diff.to_add \cup diff.to_update |-> "pending"]
    /\ pc' = "uploading"
    /\ UNCHANGED <<inputs, attachments, current_version, obs, page, disk, store, appearance_set, remote_state, diff,
                   delete_futures, calls>>

\* a worker of the upload pool takes a task: _upload_file calls
\* client.upload_attachment
UploadStart(f) ==
    /\ pc = "uploading" /\ f \in DOMAIN upload_futures
    /\ upload_futures[f] = "pending"
    /\ Cardinality(Busy(upload_futures)) < max_workers
    /\ upload_futures' = [upload_futures EXCEPT ![f] = "running"]
    /\ calls' = CalledFor("upload_attachment", f)
    /\ UNCHANGED <<inputs, attachments, current_version, obs, page, disk, store, appearance_set, pc, remote_state, diff,
                   delete_futures>>

\* _upload_file returns: the new id, or None when the request failed
\* (lines 546-556)
UploadFinish(f, ok) ==
    /\ pc = "uploading" /\ f \in DOMAIN upload_futures
    /\ upload_futures[f] = "running"
    /\ upload_futures' = [upload_futures EXCEPT ![f] = IF ok THEN "True" ELSE "False"]
    /\ attachments' =
          IF ok THEN uploaded(attachments, f,
                              [id |-> NewId(f), hash |-> local_files[f].hash])
          ELSE attachments
    /\ UNCHANGED <<inputs, current_version, obs, page, disk, store, appearance_set, pc,
                   remote_state, diff, delete_futures, calls>>

\* lines 508-518: as_completed hands a finished upload to the calling thread
UploadResult(f) ==
    /\ pc = "uploading" /\ f \in DOMAIN upload_futures
    /\ upload_futures[f] \in {"True", "False"}
    /\ IF upload_futures[f] = "True"
       THEN /\ state_remote' =
                   update_remote_file(state_remote, f, NewId(f), local_files[f].hash)
            /\ upload_futures' = [upload_futures EXCEPT ![f] = "got_True"]
       ELSE /\ UNCHANGED state_remote
            /\ upload_futures' = [upload_futures EXCEPT ![f] = "got_False"]
    /\ UNCHANGED <<inputs, attachments, current_version, obs, page, disk, state_history, appearance_set, pc, remote_state,
                   diff, delete_futures, calls>>

\* the upload pool's "with" block ends: _execute_operations returns
ExecuteReturn ==
    /\ pc = "uploading" /\ Joined(upload_futures)
    /\ pc' = "update_page"
    /\ UNCHANGED <<inputs, attachments, current_version, obs, page, disk, store, appearance_set, remote_state, diff,
                   pools, calls>>

\* line 169
needs_redraw == has_changes(diff) \/ args.is_startup \/ args.notes_dirty

\* lines 575-589: the body _update_page pushes: rebuilt from local_state, or
\* the body read from the page with its history table replaced
\* (_update_history_only)
new_content(h) ==
    [assets |-> IF needs_redraw THEN DOMAIN local_files ELSE page.assets,
     history |-> get_history_slice(h, history_keep)]

\* lines 567-574: _update_page adds the history entry and reads the page
\* version
UpdatePageRead ==
    /\ pc = "update_page"
    /\ state_history' = add_history_entry(state_history, "sync", history_keep)
    /\ current_version' = page.version
    /\ calls' = Called("get_page_content")
    /\ obs' = [obs EXCEPT !.read_run = run]
    /\ pc' = "push"
    /\ UNCHANGED <<inputs, attachments, page, disk, state_remote, appearance_set,
                   remote_state, diff, pools>>

\* mutant of UpdatePage: _appearance_set is not set after the call
UpdatePage_AppearanceNotRecorded ==
    /\ pc = "push" /\ current_version = page.version
    /\ page' = [version |-> update_page_content(current_version),
                assets |-> new_content(state_history).assets,
                history |-> new_content(state_history).history]
    /\ calls' = [calls EXCEPT !.update_page_content = @ + 1,
                              !.set_page_appearance = IF appearance_set THEN @ ELSE @ + 1]
    /\ obs' = [obs EXCEPT !.put = update_page_content(current_version),
                          !.appearance_ok = @ \/ ~appearance_set]
    /\ pc' = "save"
    /\ UNCHANGED <<inputs, attachments, current_version, disk, store, remote_state,
                   diff, pools, appearance_set>>

\* lines 575-606: _update_page builds the body and pushes it (the server
\* takes a PUT whose version follows the page's), then sets the page
\* appearance unless that was done before
UpdatePage ==
    /\ pc = "push" /\ current_version = page.version
    /\ page' = [version |-> update_page_content(current_version),
                assets |-> new_content(state_history).assets,
                history |-> new_content(state_history).history]
    /\ calls' = [calls EXCEPT !.update_page_content = @ + 1,
                              !.set_page_appearance = IF appearance_set THEN @ ELSE @ + 1]
    /\ obs' = [obs EXCEPT !.put = update_page_content(current_version),
                          !.appearance_ok = @ \/ ~appearance_set]
    /\ appearance_set' = TRUE
    /\ pc' = "save"
    /\ UNCHANGED <<inputs, attachments, current_version, disk, store, remote_state,
                   diff, pools>>

\* _update_page raises: at get_page_content (line 574) after the history
\* entry was added, at update_page_content (line 595, also when the page's
\* version has moved on), or at set_page_appearance (line 604) after the page
\* was pushed
UpdatePageRaise(at) ==
    /\ \/ /\ at = "get_page_content"
          /\ pc = "update_page"
          /\ state_history' = add_history_entry(state_history, "sync", history_keep)
          /\ calls' = Called("get_page_content")
          /\ obs' = [obs EXCEPT !.raised_at = at]
          /\ UNCHANGED page
       \/ /\ at = "update_page_content"
          /\ pc = "push"
          /\ calls' = Called("update_page_content")
          /\ obs' = [obs EXCEPT !.raised_at = at,
                                !.put = update_page_content(current_version)]
          /\ UNCHANGED <<page, state_history>>
       \/ /\ at = "set_page_appearance"
          /\ pc = "push" /\ current_version = page.version
          /\ ~appearance_set
          /\ calls' = [calls EXCEPT !.update_page_content = @ + 1,
                                    !.set_page_appearance = @ + 1]
          /\ obs' = [obs EXCEPT !.raised_at = at,
                                !.put = update_page_content(current_version)]
          /\ page' = [version |-> update_page_content(current_version),
                      assets |-> new_content(state_history).assets,
                      history |-> new_content(state_history).history]
          /\ UNCHANGED state_history
    /\ pc' = "raised"
    /\ UNCHANGED <<inputs, attachments, current_version, disk, state_remote,
                   appearance_set, remote_state, diff, pools>>

\* line 173: self.state.save(), and run_sync returns
Save ==
    /\ pc = "save"
    /\ Saved(state_remote, state_history)
    /\ pc' = "returned"
    /\ UNCHANGED <<inputs, attachments, current_version, obs, page, store, appearance_set, remote_state, diff, pools, calls>>

RaiseSites == {"get_page_content", "get_all_attachments", "update_page_content",
               "set_page_appearance"}

SyncNext ==
    \/ (CachedRemoteState) /\ UNCHANGED but_engine
    \/ (\E failed \in SUBSET DOMAIN attachments : FullCloudSync(failed)) /\ UNCHANGED but_engine
    \/ (\E at \in RaiseSites : FullCloudSyncRaise(at)) /\ UNCHANGED but_engine
    \/ (ShortCircuit) /\ UNCHANGED but_engine
    \/ (NotesOnlyRead) /\ UNCHANGED but_engine
    \/ (NotesOnlySync) /\ UNCHANGED but_engine
    \/ (\E at \in RaiseSites : NotesOnlySyncRaise(at)) /\ UNCHANGED but_engine
    \/ (DryRun) /\ UNCHANGED but_engine
    \/ (SubmitDeletes) /\ UNCHANGED but_engine
    \/ (\E f \in Files : DeleteStart(f)) /\ UNCHANGED but_engine
    \/ (\E f \in Files, ok \in BOOLEAN : DeleteFinish(f, ok)) /\ UNCHANGED but_engine
    \/ (\E f \in Files : DeleteResult(f)) /\ UNCHANGED but_engine
    \/ (SubmitUploads) /\ UNCHANGED but_engine
    \/ (\E f \in Files : UploadStart(f)) /\ UNCHANGED but_engine
    \/ (\E f \in Files, ok \in BOOLEAN : UploadFinish(f, ok)) /\ UNCHANGED but_engine
    \/ (\E f \in Files : UploadResult(f)) /\ UNCHANGED but_engine
    \/ (ExecuteReturn) /\ UNCHANGED but_engine
    \/ (UpdatePageRead) /\ UNCHANGED but_engine
    \/ (UpdatePage) /\ UNCHANGED but_engine
    \/ (\E at \in RaiseSites : UpdatePageRaise(at)) /\ UNCHANGED but_engine
    \/ (Save) /\ UNCHANGED but_engine

\* one run_sync call on a resting coalescer
SyncSpec == SyncInit /\ [][SyncNext]_all_vars

\* -------------------------------------- the lifetime of one engine instance
\* run_sync calls made on one engine in its lifetime; edits of the page made
\* by others in that time
MaxRuns == 3
MaxEdits == 1
\* files that exist, locally or remotely, in a lifetime
MaxLifeFiles == 1
LifeFiles == 1..MaxLifeFiles

\* every operation of the run's diff was made and succeeded
OpsApplied ==
    /\ DOMAIN delete_futures = diff.to_delete
    /\ DOMAIN upload_futures = diff.to_add \cup diff.to_update
    /\ \A f \in DOMAIN delete_futures : delete_futures[f] = "got_True"
    /\ \A f \in DOMAIN upload_futures : upload_futures[f] = "got_True"

\* src/multi_project_manager.py line 218: a drained round calls run_sync
\* again on the same engine (is_startup=False, dry_run left at its default),
\* after the previous call has returned or raised; the locals of the previous
\* call are gone.  The local folder is as it was or has changed.  (A dry run
\* is the one call of main.py's run_once; no call follows it.)
NextRun ==
    /\ pc \in {"returned", "raised"} /\ run < MaxRuns
    /\ ~args.dry_run
    /\ run' = run + 1
    /\ args' \in [is_startup : {FALSE}, dry_run : {FALSE}, notes_dirty : BOOLEAN]
    /\ target_folder' \in Folders(LifeFiles)
    /\ local_files' = scan_local_files(target_folder')
    /\ prev' = [diff |-> diff, local_files |-> local_files,
                raised_at |-> obs.raised_at, applied |-> OpsApplied,
                cache_file |-> at_call.cache_file, missed |-> obs.missed]
    /\ at_call' = [state_remote |-> state_remote, state_history |-> state_history,
                   cache_file |-> cache_file, history_file |-> history_file,
                   page |-> page]
    /\ pc' = "called"
    /\ remote_state' = <<>>
    /\ diff' = [to_add |-> {}, to_update |-> {}, to_delete |-> {}]
    /\ delete_futures' = <<>> /\ upload_futures' = <<>>
    /\ calls' = NoCalls
    /\ current_version' = 0
    /\ obs' = [obs EXCEPT !.read_run = 0, !.put = 0, !.raised_at = "none",
                           !.missed = {}]
    /\ UNCHANGED <<attachments, page, disk, store, appearance_set>>

\* somebody else edits the page: the server gives it the next version.  The
\* engine meets the page's version only when it reads it and when it PUTs, so
\* an edit is followed from the last step before the read on.
ExternalEdit ==
    /\ obs.edits < MaxEdits
    /\ \/ pc \in {"update_page", "push", "notes_push"}
       \/ pc = "decide" /\ no_img_change /\ args.notes_dirty
    /\ page' = [page EXCEPT !.version = @ + 1]
    /\ obs' = [obs EXCEPT !.edits = @ + 1]
    /\ UNCHANGED <<inputs, attachments, disk, store, appearance_set, pc, remote_state,
                   diff, pools, calls, current_version>>

LifeNext ==
    \/ SyncNext
    \/ (NextRun) /\ UNCHANGED but_engine
    \/ (ExternalEdit) /\ UNCHANGED but_engine

\* a freshly constructed engine whose cache file, if any, was written by
\* this program; the files are LifeFiles
LifeInit ==
    /\ SyncInit
    /\ DOMAIN local_files \cup DOMAIN cache_file.content \cup DOMAIN attachments
          \subseteq LifeFiles
    /\ \A f \in DOMAIN cache_file.content : cache_file.content[f].hash \in HexDigests

\* the run_sync calls made on one engine, from its construction on
LifeSpec == LifeInit /\ [][LifeNext]_all_vars

SyncTypeOK ==
    /\ pc \in {"called", "decide", "notes_push", "deleting", "uploading",
               "update_page", "push", "save", "returned", "raised"}
    /\ DOMAIN local_files \subseteq Files /\ DOMAIN state_remote \subseteq Files
    /\ DOMAIN remote_state \subseteq Files
    /\ Len(state_history) <= history_keep
    /\ DOMAIN delete_futures \subseteq diff.to_delete
    /\ DOMAIN upload_futures \subseteq diff.to_add \cup diff.to_update
    /\ Cardinality(Busy(delete_futures)) <= max_workers
    /\ Cardinality(Busy(upload_futures)) <= max_workers

\* ------------------------------------------- the state store and its files
\* (src/core/state_manager.py).  A Python str is the sequence of its code
\* points; a file's text is the sequence of the JSON tokens written to it,
\* each token the sequence of its UTF-8 bytes (the files are opened with
\* encoding="utf-8" and written with ensure_ascii=False).  The strings of the
\* model hold no quote, backslash or control character.

\* add_history_entry calls made in all; processes that construct a
\* StateManager on the two files, one after the other
MaxAdds == 3
MaxLives == 2

\* filenames: "a", and "図é" (a three-byte and a two-byte character)
FileNames == {<<97>>, <<22259, 233>>}
\* the keys "id", "hash", "date", "log", "user_id"
K_id == <<105, 100>>
K_hash == <<104, 97, 115, 104>>
K_date == <<100, 97, 116, 101>>
K_log == <<108, 111, 103>>
K_user_id == <<117, 115, 101, 114, 95, 105, 100>>

\* mutant of utf8: the file is written as ASCII, "?" for any other character
utf8_Ascii(cp) == IF cp < 128 THEN <<cp>> ELSE <<63>>

\* TextIOWrapper with encoding="utf-8", writing: the bytes of a code point
utf8(cp) ==
    IF cp < 128 THEN <<cp>>
    ELSE IF cp < 2048 THEN <<192 + (cp \div 64), 128 + (cp % 64)>>
    ELSE <<224 + (cp \div 4096), 128 + ((cp \div 64) % 64), 128 + (cp % 64)>>

RECURSIVE encode(_)
encode(s) == IF s = <<>> THEN <<>> ELSE utf8(Head(s)) \o encode(Tail(s))

\* TextIOWrapper with encoding="utf-8", reading: the code points of a byte
\* sequence, or a UnicodeDecodeError
RECURSIVE decode(_)
decode(b) ==
    IF b = <<>> THEN [ok |-> TRUE, s |-> <<>>]
    ELSE LET n == IF b[1] < 128 THEN 1
                  ELSE IF b[1] \in 194..223 THEN 2
                  ELSE IF b[1] \in 224..239 THEN 3 ELSE 0
         IN IF n = 0 \/ Len(b) < n \/ \E i \in 2..n : b[i] \notin 128..191
            THEN [ok |-> FALSE, s |-> <<>>]
            ELSE LET cp == IF n = 1 THEN b[1]
                           ELSE IF n = 2 THEN (b[1] - 192) * 64 + (b[2] - 128)
                           ELSE (b[1] - 224) * 4096 + (b[2] - 128) * 64 + (b[3] - 128)
                     rest == decode(SubSeq(b, n + 1, Len(b)))
                 IN IF rest.ok THEN [ok |-> TRUE, s |-> <<cp>> \o rest.s]
                    ELSE rest

\* json.dump: a str; a dict whose values are str; a dict of such dicts (the
\* remote-asset map); a list of such dicts (the history)
dump_str(s) == <<(<<34>> \o encode(s) \o <<34>>)>>
RECURSIVE dump_members(_, _)
dump_members(o, ks) ==
    IF ks = {} THEN <<>>
    ELSE LET k == CHOOSE x \in ks : TRUE
         IN dump_str(k) \o <<(<<58>>)>> \o dump_str(o[k])
            \o (IF ks = {k} THEN <<>> ELSE <<(<<44>>)>> \o dump_members(o, ks \ {k}))
dump_dict(o) == <<(<<123>>)>> \o dump_members(o, DOMAIN o) \o <<(<<125>>)>>
RECURSIVE dump_entries(_, _)
dump_entries(o, ks) ==
    IF ks = {} THEN <<>>
    ELSE LET k == CHOOSE x \in ks : TRUE
         IN dump_str(k) \o <<(<<58>>)>> \o dump_dict(o[k])
            \o (IF ks = {k} THEN <<>> ELSE <<(<<44>>)>> \o dump_entries(o, ks \ {k}))
dump_remote_state(o) == <<(<<123>>)>> \o dump_entries(o, DOMAIN o) \o <<(<<125>>)>>
RECURSIVE dump_elements(_)
dump_elements(l) ==
    IF l = <<>> THEN <<>>
    ELSE dump_dict(Head(l))
         \o (IF Tail(l) = <<>> THEN <<>> ELSE <<(<<44>>)>> \o dump_elements(Tail(l)))
dump_history(l) == <<(<<91>>)>> \o dump_elements(l) \o <<(<<93>>)>>

\* json.load: a value, from token i of the text t on; ok is false for a
\* JSONDecodeError or UnicodeDecodeError.  A dict is the function from its
\* keys, a list the sequence of its elements.
JsonFail == [ok |-> FALSE, v |-> <<>>, next |-> 0]
parse_str(tok) ==
    IF Len(tok) >= 2 /\ tok[1] = 34 /\ tok[Len(tok)] = 34
    THEN LET d == decode(SubSeq(tok, 2, Len(tok) - 1)) IN [ok |-> d.ok, v |-> d.s]
    ELSE [ok |-> FALSE, v |-> <<>>]
RECURSIVE parse_value(_, _)
RECURSIVE parse_members(_, _, _)
RECURSIVE parse_elements(_, _, _)
parse_value(t, i) ==
    IF i > Len(t) THEN JsonFail
    ELSE IF t[i] = <<123>>
    THEN IF i + 1 <= Len(t) /\ t[i + 1] = <<125>>
         THEN [ok |-> TRUE, v |-> <<>>, next |-> i + 2]
         ELSE parse_members(t, i + 1, <<>>)
    ELSE IF t[i] = <<91>>
    THEN IF i + 1 <= Len(t) /\ t[i + 1] = <<93>>
         THEN [ok |-> TRUE, v |-> <<>>, next |-> i + 2]
         ELSE parse_elements(t, i + 1, <<>>)
    ELSE LET s == parse_str(t[i]) IN [ok |-> s.ok, v |-> s.v, next |-> i + 1]
parse_members(t, i, acc) ==
    IF i + 2 > Len(t) THEN JsonFail
    ELSE LET k == parse_str(t[i]) IN
         IF ~k.ok \/ t[i + 1] # <<58>> THEN JsonFail
         ELSE LET val == parse_value(t, i + 2) IN
              IF ~val.ok \/ val.next > Len(t) THEN JsonFail
              ELSE LET acc2 == [x \in DOMAIN acc \cup {k.v} |->
                                   IF x = k.v THEN val.v ELSE acc[x]]
                   IN IF t[val.next] = <<125>>
                      THEN [ok |-> TRUE, v |-> acc2, next |-> val.next + 1]
                      ELSE IF t[val.next] = <<44>>
                      THEN parse_members(t, val.next + 1, acc2)
                      ELSE JsonFail
parse_elements(t, i, acc) ==
    LET val == parse_value(t, i) IN
    IF ~val.ok \/ val.next > Len(t) THEN JsonFail
    ELSE IF t[val.next] = <<93>>
    THEN [ok |-> TRUE, v |-> Append(acc, val.v), next |-> val.next + 1]
    ELSE IF t[val.next] = <<44>>
    THEN parse_elements(t, val.next + 1, Append(acc, val.v))
    ELSE JsonFail
\* the whole text is one value
json_load(t) ==
    LET r == parse_value(t, 1) IN
    IF r.ok /\ r.next = Len(t) + 1 THEN [ok |-> TRUE, v |-> r.v]
    ELSE [ok |-> FALSE, v |-> <<>>]

\* update_remote_file, line 97: the dict stored for a filename
Entry(attachment_id, file_hash) == (K_id :> attachment_id) @@ (K_hash :> file_hash)
\* add_history_entry, lines 126-130: the dict inserted; the n-th entry made
\* gets the log text "n"
HistoryEntry(n) == (K_date :> <<50>>) @@ (K_log :> <<48 + n>>) @@ (K_user_id :> <<20316>>)
set_item(o, k, val) == [x \in DOMAIN o \cup {k} |-> IF x = k THEN val ELSE o[x]]
del_item(o, k) == [x \in DOMAIN o \ {k} |-> o[x]]

Missing == [exists |-> FALSE, text |-> <<>>]
File(t) == [exists |-> TRUE, text |-> t]
NoTmp == [doc |-> "none", text |-> <<>>, full |-> <<>>]
\* lines 25-33: __init__ before _load
NewManager == [remote_state |-> <<>>, history |-> <<>>, load_warnings |-> <<>>]

\* texts json.load takes, and texts it raises on: an empty file, a text that
\* ends early, a string that is not UTF-8
CacheTexts ==
    {dump_remote_state(<<>>),
     dump_remote_state((<<97>>) :> Entry(<<49>>, <<97>>))}
HistoryTexts == {dump_history(<<>>), dump_history(<<HistoryEntry(0)>>)}
CorruptCache ==
    {<<>>, SubSeq(dump_remote_state((<<97>>) :> Entry(<<49>>, <<97>>)), 1, 5)}
CorruptHistory == {<<(<<91>>), <<34, 229, 34>>, (<<93>>)>>}

\* a process that is about to construct a StateManager on two paths, each
\* of them missing, or a file earlier saved, or a file that does not parse
StoreInit ==
    /\ CoalescerInit /\ NoCall /\ NoRequest /\ NoMonitor /\ NoStop /\ NoApp
    /\ NoManager
    /\ cfg_keep \in 0..history_keep
    /\ files \in [cache : {Missing} \cup {File(t) : t \in CacheTexts \cup CorruptCache},
                  history : {Missing} \cup {File(t) : t \in HistoryTexts \cup CorruptHistory}]
    /\ sm = NewManager
    /\ tmp = NoTmp
    /\ sm_pc = "unbuilt"
    /\ sgh = [fresh |-> FALSE, phase |-> "none", old |-> files, held |-> NewManager,
              n_logs |-> 0, tracked |-> FALSE, since |-> <<>>, lives |-> 0]

\* mutant of LoadDocument: a file that does not parse leaves no warning
LoadDocument_NoWarning(doc, empty) ==
    IF files[doc].exists
    THEN LET r == json_load(files[doc].text) IN
         IF r.ok THEN [v |-> r.v, warnings |-> <<>>]
         ELSE [v |-> empty, warnings |-> <<>>]
    ELSE [v |-> empty, warnings |-> <<>>]

\* _load, lines 38-45 (lines 48-54): one document; what the attribute
\* becomes and what is appended to _load_warnings
LoadDocument(doc, empty) ==
    IF files[doc].exists
    THEN LET r == json_load(files[doc].text) IN
         IF r.ok THEN [v |-> r.v, warnings |-> <<>>]
         ELSE [v |-> empty, warnings |-> <<doc>>]
    ELSE [v |-> empty, warnings |-> <<>>]

\* __init__ and the first half of _load: the cache file
LoadCache ==
    /\ sm_pc \in {"unbuilt", "dead"}
    /\ sgh.lives < MaxLives
    /\ LET r == LoadDocument("cache", <<>>) IN
         sm' = [remote_state |-> r.v, history |-> <<>>, load_warnings |-> r.warnings]
    /\ sgh' = [sgh EXCEPT !.lives = @ + 1]
    /\ sm_pc' = "load_history"
    /\ UNCHANGED <<cfg_keep, files, tmp>>

\* the second half of _load: the history file; the constructor returns
LoadHistory ==
    /\ sm_pc = "load_history"
    /\ LET r == LoadDocument("history", <<>>) IN
         /\ sm' = [sm EXCEPT !.history = r.v,
                             !.load_warnings = @ \o r.warnings]
         /\ sgh' = [sgh EXCEPT !.fresh = TRUE, !.tracked = (r.v = <<>>),
                               !.since = <<>>]
    /\ sm_pc' = "ready"
    /\ UNCHANGED <<cfg_keep, files, tmp>>

\* the object is no longer as loaded, nor as saved
Touched ==
    [sgh EXCEPT !.fresh = FALSE, !.phase = "none", !.old = files, !.held = NewManager]

\* update_remote_file, lines 93-97
UpdateRemoteFile(filename, attachment_id, file_hash) ==
    /\ sm_pc = "ready"
    /\ sm' = [sm EXCEPT !.remote_state = set_item(@, filename, Entry(attachment_id, file_hash))]
    /\ sgh' = Touched
    /\ UNCHANGED <<cfg_keep, files, tmp, sm_pc>>

\* remove_remote_file, lines 99-104, of a filename that is there
RemoveRemoteFile(filename) ==
    /\ sm_pc = "ready"
    /\ filename \in DOMAIN sm.remote_state
    /\ sm' = [sm EXCEPT !.remote_state = del_item(@, filename)]
    /\ sgh' = Touched
    /\ UNCHANGED <<cfg_keep, files, tmp, sm_pc>>

\* add_history_entry, lines 122-133, called with keep = sync.history_keep
AddHistoryEntry ==
    /\ sm_pc = "ready"
    /\ sgh.n_logs < MaxAdds
    /\ LET entry == HistoryEntry(sgh.n_logs + 1) IN
         /\ sm' = [sm EXCEPT !.history = add_history_entry(@, entry, cfg_keep)]
         /\ sgh' = [Touched EXCEPT !.n_logs = @ + 1,
                                   !.since = IF sgh.tracked THEN <<entry>> \o @ ELSE @]
    /\ UNCHANGED <<cfg_keep, files, tmp, sm_pc>>

\* save, lines 61-69 for the cache file: the temporary file is created
SaveBegin ==
    /\ sm_pc = "ready"
    /\ tmp' = [doc |-> "cache", text |-> <<>>,
               full |-> dump_remote_state(sm.remote_state)]
    /\ sgh' = [sgh EXCEPT !.fresh = FALSE, !.phase = "saving", !.old = files,
                          !.held = sm]
    /\ sm_pc' = "saving"
    /\ UNCHANGED <<cfg_keep, sm, files>>

\* line 70: json.dump has written a part of the text to the temporary file
WritePart ==
    /\ sm_pc = "saving" /\ tmp.text = <<>>
    /\ tmp' = [tmp EXCEPT !.text = SubSeq(tmp.full, 1, Len(tmp.full) \div 2)]
    /\ UNCHANGED <<cfg_keep, sm, files, sm_pc, sgh>>

\* lines 70-73: json.dump returns, flush, fsync, the file is closed
WriteRest ==
    /\ sm_pc = "saving" /\ tmp.text # tmp.full
    /\ tmp' = [tmp EXCEPT !.text = tmp.full]
    /\ UNCHANGED <<cfg_keep, sm, files, sm_pc, sgh>>

\* mutant of Replace: the text is written into the destination as it comes
Replace_InPlace ==
    /\ sm_pc = "saving" /\ tmp.text # <<>>
    /\ files' = [files EXCEPT ![tmp.doc] = File(tmp.text)]
    /\ IF tmp.text # tmp.full THEN UNCHANGED <<tmp, sm_pc, sgh>>
       ELSE IF tmp.doc = "cache"
       THEN /\ tmp' = [doc |-> "history", text |-> <<>>, full |-> dump_history(sm.history)]
            /\ UNCHANGED <<sm_pc, sgh>>
       ELSE /\ tmp' = NoTmp
            /\ sm_pc' = "ready"
            /\ sgh' = [sgh EXCEPT !.phase = "saved"]
    /\ UNCHANGED <<cfg_keep, sm>>

\* line 74: os.replace puts the temporary file in the destination's place;
\* after the cache file the history file is written the same way (line 77),
\* after the history file save returns
Replace ==
    /\ sm_pc = "saving" /\ tmp.text = tmp.full
    /\ files' = [files EXCEPT ![tmp.doc] = File(tmp.text)]
    /\ IF tmp.doc = "cache"
       THEN /\ tmp' = [doc |-> "history", text |-> <<>>, full |-> dump_history(sm.history)]
            /\ UNCHANGED <<sm_pc, sgh>>
       ELSE /\ tmp' = NoTmp
            /\ sm_pc' = "ready"
            /\ sgh' = [sgh EXCEPT !.phase = "saved"]
    /\ UNCHANGED <<cfg_keep, sm>>

\* the process ends, at any step of save or between two calls; the object
\* is gone, a temporary file stays behind under its own name
Crash ==
    /\ sm_pc \in {"ready", "saving"}
    /\ sm_pc' = "dead"
    /\ sm' = NewManager
    /\ tmp' = NoTmp
    /\ sgh' = [sgh EXCEPT !.fresh = FALSE,
                          !.phase = IF sm_pc = "saving" THEN "crashed"
                                    ELSE IF sgh.phase = "saved" THEN "saved" ELSE "none"]
    /\ UNCHANGED <<cfg_keep, files>>

StoreNext ==
    \/ (LoadCache) /\ UNCHANGED but_store
    \/ (LoadHistory) /\ UNCHANGED but_store
    \/ (\E f \in FileNames : UpdateRemoteFile(f, <<49>>, <<97>>)) /\ UNCHANGED but_store
    \/ (\E f \in FileNames : RemoveRemoteFile(f)) /\ UNCHANGED but_store
    \/ (AddHistoryEntry) /\ UNCHANGED but_store
    \/ (SaveBegin) /\ UNCHANGED but_store
    \/ (WritePart) /\ UNCHANGED but_store
    \/ (WriteRest) /\ UNCHANGED but_store
    \/ (Replace) /\ UNCHANGED but_store
    \/ (Crash) /\ UNCHANGED but_store

\* the life of the two files under processes that use a StateManager
StoreSpec == StoreInit /\ [][StoreNext]_all_vars

StoreTypeOK ==
    /\ sm_pc \in {"unbuilt", "load_history", "ready", "saving", "dead"}
    /\ tmp.doc \in {"none", "cache", "history"}
    /\ Len(sm.load_warnings) <= 2
    /\ sgh.n_logs <= MaxAdds

\* --------------------------------------- the remote client's request loop
\* (src/core/confluence_client.py, ConfluenceClient._request)

\* line 91: the default of the max_attempts argument, which no caller changes
max_attempts == 5

\* what a session.request call can give: a response with a status code and
\* perhaps a Retry-After header (a number of seconds, or a text that is not
\* one), or a requests.RequestException (no connection, timeout); code 0
\* stands for the exception
NoHeader == 0
Responses ==
    [code : {200, 201, 302, 404, 409, 500, 503}, retry_after : {NoHeader}]
    \cup [code : {429}, retry_after : {NoHeader, 7, -1}]
    \cup [code : {0}, retry_after : {NoHeader}]

\* mutant of fatal_4xx: no status is treated as final
fatal_4xx_None(code) == FALSE

\* lines 120 and 164: a 4xx that is not retried
fatal_4xx(code) == code \in 400..499 /\ code \notin {409, 429}

\* line 131
retryable(code) == code \in {429, 409} \/ code \in 500..599

\* lines 132-136: the seconds slept after a retryable status (without the
\* random fraction); a Retry-After that is all digits is taken as it is
sleep_s(resp, n) ==
    IF resp.retry_after > 0 THEN resp.retry_after
    ELSE IF 2 ^ (n - 1) < 30 THEN 2 ^ (n - 1) ELSE 30

\* line 170: the seconds slept after an exception
backoff(n) == IF 2 ^ (n - 1) < 10 THEN 2 ^ (n - 1) ELSE 10

\* a _request call begins
RequestInit ==
    /\ CoalescerInit /\ NoCall /\ NoStore /\ NoMonitor /\ NoStop /\ NoApp
    /\ NoManager
    /\ ok_status \in {{200, 201, 204}, {200, 204}, {200}}
    /\ attempt = 0
    /\ rq_pc = "loop"
    /\ sent = <<>> /\ slept = <<>>
    /\ last_exc = "None" /\ raised = "None"

\* lines 104-176: one iteration of the loop, up to its return, raise or sleep
Attempt(resp) ==
    /\ rq_pc = "loop" /\ attempt < max_attempts
    /\ attempt' = attempt + 1
    /\ sent' = Append(sent, resp)
    /\ IF resp.code = 0
       THEN \* session.request raises (lines 159-176)
            /\ last_exc' = "RequestException"
            /\ IF attempt' = max_attempts
               THEN rq_pc' = "raised" /\ raised' = "RequestException" /\ UNCHANGED slept
               ELSE rq_pc' = "sleep" /\ slept' = Append(slept, backoff(attempt'))
                    /\ UNCHANGED raised
       ELSE IF fatal_4xx(resp.code)
       THEN \* lines 120-128, 161-165
            /\ last_exc' = "HTTPError"
            /\ rq_pc' = "raised" /\ raised' = "HTTPError"
            /\ UNCHANGED slept
       ELSE IF retryable(resp.code)
       THEN \* lines 131-145
            /\ rq_pc' = "sleep" /\ slept' = Append(slept, sleep_s(resp, attempt'))
            /\ UNCHANGED <<last_exc, raised>>
       ELSE IF resp.code \notin ok_status
       THEN \* lines 147-155, then 159-176: the HTTPError is caught
            /\ last_exc' = "HTTPError"
            /\ IF fatal_4xx(resp.code) \/ attempt' = max_attempts
               THEN rq_pc' = "raised" /\ raised' = "HTTPError" /\ UNCHANGED slept
               ELSE rq_pc' = "sleep" /\ slept' = Append(slept, backoff(attempt'))
                    /\ UNCHANGED raised
       ELSE \* line 157
            /\ rq_pc' = "returned"
            /\ UNCHANGED <<last_exc, raised, slept>>
    /\ UNCHANGED ok_status

\* time.sleep returns (lines 144-145: continue; line 176: end of the
\* iteration)
Wake ==
    /\ rq_pc = "sleep"
    /\ rq_pc' = "loop"
    /\ UNCHANGED <<ok_status, attempt, sent, last_exc, raised, slept>>

\* mutant of Exhausted: when the loop has ended the call returns
Exhausted_Returns ==
    /\ rq_pc = "loop" /\ attempt = max_attempts
    /\ rq_pc' = "returned"
    /\ UNCHANGED <<ok_status, attempt, sent, last_exc, raised, slept>>

\* line 178: the loop has ended
Exhausted ==
    /\ rq_pc = "loop" /\ attempt = max_attempts
    /\ rq_pc' = "raised"
    /\ raised' = IF last_exc = "None" THEN "RuntimeError" ELSE last_exc
    /\ UNCHANGED <<ok_status, attempt, sent, last_exc, slept>>

RequestNext ==
    \/ (\E resp \in Responses : Attempt(resp)) /\ UNCHANGED but_request
    \/ (Wake) /\ UNCHANGED but_request
    \/ (Exhausted) /\ UNCHANGED but_request

\* one _request call, whatever the server answers
RequestSpec == RequestInit /\ [][RequestNext]_all_vars

\* the calling thread keeps running: session.request returns or raises (it has
\* a timeout) and time.sleep returns
RequestFairness == WF_all_vars(RequestNext)
RequestLiveInit == RequestInit
RequestLiveSpec == RequestLiveInit /\ [][RequestNext]_all_vars /\ RequestFairness

RequestTypeOK ==
    /\ attempt \in 0..max_attempts
    /\ rq_pc \in {"loop", "sleep", "returned", "raised"}
    /\ Len(sent) = attempt

\* ============================================================ FileMonitor
\* src/core/file_monitor.py: the observer thread hands every file-system
\* event to the handler of each watch it falls under; the main handler is
\* scheduled recursively on watch_path, the extra handler on the directory
\* of the caption file.  Each handler call and each timer callback is one
\* step (_schedule and _fire_if_idle run under FileMonitor._lock).

\* seconds followed; events delivered
MaxTime == 4
MaxMonitorEvents == 3

\* the delay argument, in seconds
delay == 2

\* file_patterns: "*.P"
file_patterns == {<<42, 46, 80>>}

\* extra_files: the one caption file, "N.x" in the caption directory
extra_file == <<78, 46, 120>>

\* the names an event can carry: "n.x", "N.X", "~$n.x", "._n.x", "b.p",
\* "._b.p", "c.t"
EventNames ==
    {<<110, 46, 120>>, <<78, 46, 88>>, <<126, 36, 110, 46, 120>>,
     <<46, 95, 110, 46, 120>>, <<98, 46, 112>>, <<46, 95, 98, 46, 112>>,
     <<99, 46, 116>>}

\* the caption directory "d/" and another directory of the watched folder,
\* "w/"
DirPath(dir) == IF dir = "caption" THEN <<100, 47>> ELSE <<119, 47>>

Events == [dir : {"caption", "assets"}, name : EventNames,
           is_directory : BOOLEAN]

\* event.src_path
src_path(e) == DirPath(e.dir) \o e.name

\* str.startswith
startswith(s, prefix) ==
    /\ Len(s) >= Len(prefix)
    /\ SubSeq(s, 1, Len(prefix)) = prefix

\* Path(p).name: what follows the last "/"
RECURSIVE PathName(_)
PathName(p) ==
    IF \E i \in DOMAIN p : p[i] = 47
    THEN PathName(Tail(p))
    ELSE p

\* fnmatch.fnmatch for patterns of literals, "*" and "?"
RECURSIVE fnmatch(_, _)
fnmatch(name, pat) ==
    IF pat = <<>> THEN name = <<>>
    ELSE IF Head(pat) = 42
    THEN fnmatch(name, Tail(pat))
         \/ (name # <<>> /\ fnmatch(Tail(name), pat))
    ELSE /\ name # <<>>
         /\ Head(pat) = 63 \/ Head(pat) = Head(name)
         /\ fnmatch(Tail(name), Tail(pat))

\* _extra_file_map[dir_key]: the lowercased names of the caption directory
allowed_names == {lower(extra_file)}

\* _matches_main(file_path)
matches_main(file_path) ==
    LET p == lower(file_path)
        name == PathName(p)
    IN  \E pattern \in file_patterns :
            fnmatch(name, lower(pattern)) \/ fnmatch(p, lower(pattern))

NoEvent == [n |-> 0, handler |-> "none",
            event |-> [dir |-> "assets", name |-> <<>>,
                       is_directory |-> FALSE]]

\* the monitor after start(), before the first event
MonitorInit ==
    /\ CoalescerInit /\ NoCall /\ NoStore /\ NoRequest /\ NoStop /\ NoApp
    /\ NoManager
    /\ inside \in BOOLEAN
    /\ now = 0
    /\ _notes_dirty = FALSE /\ _last_event_time = 0
    /\ _timer = <<>> /\ late = {}
    /\ fired = {} /\ last_event = NoEvent
    /\ cb = [n |-> 0, at |-> 0, arg |-> FALSE, since |-> FALSE]

\* _schedule(notes_dirty=notes), called for event e.  cancel() stops the old timer
\* unless it has expired and its thread is already past the cancel check (it
\* then waits for the lock and runs _fire_if_idle).
schedule(notes, e) ==
    /\ _last_event_time' = now
    /\ _notes_dirty' = IF notes THEN TRUE ELSE _notes_dirty
    /\ \/ late' = late
       \/ /\ _timer # <<>> /\ _timer.due <= now
          /\ late' = late \cup {_timer}
    /\ _timer' = [due |-> now + delay, by |-> e]
    /\ cb' = [cb EXCEPT !.since = @ \/ notes]

\* the extra handler's on_any_event: an event in the caption directory
ExtraEvent(e) ==
    /\ last_event.n < MaxMonitorEvents
    /\ e.dir = "caption"
    /\ last_event' = [n |-> last_event.n + 1, handler |-> "extra", event |-> e]
    /\ LET name == lower(PathName(src_path(e)))
       IN  IF /\ ~e.is_directory
              /\ ~(startswith(name, <<126, 36>>) \/ startswith(name, <<46, 95>>))
              /\ name \in allowed_names
           THEN schedule(TRUE, e)
           ELSE UNCHANGED <<_notes_dirty, _last_event_time, _timer, late, cb>>
    /\ UNCHANGED <<inside, now, fired>>

\* the main handler's on_any_event: an event anywhere under watch_path
MainEvent(e) ==
    /\ last_event.n < MaxMonitorEvents
    /\ e.dir = "assets" \/ inside
    /\ last_event' = [n |-> last_event.n + 1, handler |-> "main", event |-> e]
    /\ IF ~e.is_directory /\ matches_main(src_path(e))
       THEN schedule(FALSE, e)
       ELSE UNCHANGED <<_notes_dirty, _last_event_time, _timer, late, cb>>
    /\ UNCHANGED <<inside, now, fired>>

\* _fire_if_idle on the thread of timer t
fire_if_idle(t) ==
    /\ t.due <= now
    /\ IF now - _last_event_time < delay
       THEN UNCHANGED <<_notes_dirty, fired, cb>>
       ELSE /\ _notes_dirty' = FALSE
            /\ fired' = fired \cup {[notes_dirty |-> _notes_dirty, by |-> t.by]}
            /\ cb' = [n |-> cb.n + 1, at |-> last_event.n,
                      arg |-> _notes_dirty, since |-> FALSE]
    /\ UNCHANGED <<inside, now, _last_event_time, last_event>>

\* the timer held in _timer expires
TimerRuns ==
    /\ _timer # <<>>
    /\ fire_if_idle(_timer)
    /\ _timer' = <<>>
    /\ UNCHANGED late

\* a timer that cancel() did not stop runs
LateTimerRuns ==
    \E t \in late :
        /\ fire_if_idle(t)
        /\ late' = late \ {t}
        /\ UNCHANGED _timer

\* a second passes
Tick ==
    /\ now < MaxTime
    /\ now' = now + 1
    /\ UNCHANGED <<inside, _notes_dirty, _last_event_time, _timer, late, fired,
                   last_event, cb>>

MonitorNext ==
    \/ (\E e \in Events : ExtraEvent(e)) /\ UNCHANGED but_monitor
    \/ (\E e \in Events : MainEvent(e)) /\ UNCHANGED but_monitor
    \/ (TimerRuns) /\ UNCHANGED but_monitor
    \/ (LateTimerRuns) /\ UNCHANGED but_monitor
    \/ (Tick) /\ UNCHANGED but_monitor

\* a started FileMonitor, whatever events arrive
MonitorSpec == MonitorInit /\ [][MonitorNext]_all_vars

MonitorTypeOK ==
    /\ now \in 0..MaxTime
    /\ _notes_dirty \in BOOLEAN
    /\ _timer # <<>> => _timer.due \in 0..(MaxTime + delay)
    /\ \A f \in fired : f.notes_dirty \in BOOLEAN

\* ======================================================== stop_monitoring
\* ProjectInstance.stop_monitoring (src/multi_project_manager.py, lines
\* 127-154) on a thread of its own, beside the timers and callbacks of the
\* coalescer.  It takes no lock; each access to an attribute is one step.

\* lines 130-141: self.monitor.stop(); the observer delivers no event after
StopObserver ==
    /\ stop_pc = "watching"
    /\ stop_pc' = "test"
    /\ UNCHANGED vars

\* line 144: if hasattr(self, "_dirty_timer") and self._dirty_timer
StopTest ==
    /\ stop_pc = "test"
    /\ stop_pc' = IF dirty_timer # NoTimer THEN "cancel" ELSE "clear"
    /\ UNCHANGED vars

\* lines 145-148: self._dirty_timer.cancel(), any exception passed over
StopCancel ==
    /\ stop_pc = "cancel"
    /\ timer' = Cancelled
    /\ stop_pc' = "unset"
    /\ UNCHANGED <<flags, dirty_timer, lck, ev_pc, drains, hist>>

\* line 149: self._dirty_timer = None
StopUnset ==
    /\ stop_pc = "unset"
    /\ dirty_timer' = NoTimer
    /\ stop_pc' = "clear"
    /\ UNCHANGED <<flags, timer, lck, ev_pc, drains, hist>>

\* lines 152-153: self._dirty = False; stop_monitoring returns
StopClear ==
    /\ stop_pc = "clear"
    /\ dirty' = FALSE
    /\ stop_pc' = "returned"
    /\ UNCHANGED <<notes_dirty, tmr, lck, ev_pc, drains, hist>>

StopInit ==
    /\ CoalescerInit /\ NoCall /\ NoStore /\ NoRequest /\ NoMonitor /\ NoApp
    /\ NoManager
    /\ stop_pc = "watching"

\* the coalescer's steps; no event is delivered once the observer is stopped
StopNext ==
    \/ Next /\ (stop_pc = "watching" \/ evLog' = evLog)
    \/ (StopObserver) /\ UNCHANGED but_stop
    \/ (StopTest) /\ UNCHANGED but_stop
    \/ (StopCancel) /\ UNCHANGED but_stop
    \/ (StopUnset) /\ UNCHANGED but_stop
    \/ (StopClear) /\ UNCHANGED but_stop

\* the coalescer with one stop_monitoring call at any moment
StopSpec == StopInit /\ [][StopNext]_all_vars

StopTypeOK ==
    stop_pc \in {"watching", "test", "cancel", "unset", "clear", "returned"}

\* ---------------------------------------------------------------------
\* Single-project watch mode (src/main.py, SyncApplication.run_watch): the
\* main thread runs the initial sync, constructs a FileMonitor on the target
\* folder with callback = self._on_file_change and no extra files, starts it
\* and sleeps until Ctrl+C.  The monitor is the one modelled above; its
\* callback runs on the thread of the timer that made the call.
\* ---------------------------------------------------------------------

\* def _on_file_change(self) -> None: the parameters after self (main.py
\* line 127)
on_file_change_params == <<>>

\* a call binds its positional arguments to the parameters before the body
\* runs; when the counts differ the call raises TypeError and no statement of
\* the body is executed
binds(params, argv) == Len(argv) = Len(params)

\* SyncApplication._on_file_change from acquire(blocking=False) to the
\* finally block: with the lock free one run_sync(is_startup=False), whose
\* exception is caught and logged, then release(); with the lock held a
\* warning
on_file_change_body ==
    /\ watcher_syncs' = IF app_sync_lock = "free" THEN watcher_syncs + 1
                        ELSE watcher_syncs
    /\ UNCHANGED <<app_sync_lock, callback_errors>>

\* self.callback(notes_dirty) in _fire_if_idle (file_monitor.py lines
\* 125-128) with callback = SyncApplication._on_file_change: the call, and
\* the "except Exception" that prints what it raised
callback(argv) ==
    IF binds(on_file_change_params, argv)
    THEN on_file_change_body
    ELSE /\ callback_errors' = callback_errors + 1
         /\ UNCHANGED <<app_sync_lock, watcher_syncs>>

\* what a timer thread does after the locked part of _fire_if_idle: the
\* callback when the idle check passed, nothing when it returned early
after_idle_check ==
    IF cb'.n # cb.n THEN callback(<<cb'.arg>>)
    ELSE UNCHANGED <<app_sync_lock, watcher_syncs, callback_errors>>

OnceOutcomes == {"returned", "raised", "interrupted"}

\* run_once(): run_sync(is_startup=True); an exception or Ctrl+C ends the
\* process (sys.exit)
RunOnce(outcome) ==
    /\ app_pc = "run_once"
    /\ app_pc' = IF outcome = "returned" THEN "construct" ELSE "exited"
    /\ UNCHANGED <<app_sync_lock, watcher_syncs, callback_errors, mvars>>

\* FileMonitor(...) and monitor.start() (main.py lines 108-116)
MonitorStart ==
    /\ app_pc = "construct"
    /\ app_pc' = "watching"
    /\ UNCHANGED <<app_sync_lock, watcher_syncs, callback_errors, mvars>>

\* the main handler receives an event while the observer runs
WatchEvent(e) ==
    /\ app_pc = "watching"
    /\ MainEvent(e)
    /\ UNCHANGED avars

\* the timer held in _timer expires and its thread runs _fire_if_idle
WatchTimerRuns ==
    /\ app_pc \in {"watching", "stopped"}
    /\ TimerRuns
    /\ after_idle_check
    /\ UNCHANGED app_pc

\* a timer that cancel() did not stop runs _fire_if_idle
WatchLateTimerRuns ==
    /\ app_pc \in {"watching", "stopped"}
    /\ LateTimerRuns
    /\ after_idle_check
    /\ UNCHANGED app_pc

WatchTick ==
    /\ app_pc \in {"watching", "stopped"}
    /\ Tick
    /\ UNCHANGED avars

\* Ctrl+C in the sleep loop: monitor.stop() cancels the timer it finds (a
\* timer already past its cancel check still runs) and stops the observer
KeyboardInterrupt ==
    /\ app_pc = "watching"
    /\ app_pc' = "stopped"
    /\ \/ late' = late
       \/ /\ _timer # <<>> /\ _timer.due <= now
          /\ late' = late \cup {_timer}
    /\ _timer' = <<>>
    /\ UNCHANGED <<inside, now, _notes_dirty, _last_event_time, fired,
                   last_event, cb, app_sync_lock, watcher_syncs, callback_errors>>

\* python main.py --mode watch: a constructed SyncApplication on which
\* run_watch is called
WatchInit ==
    /\ CoalescerInit /\ NoCall /\ NoStore /\ NoRequest /\ NoStop
    /\ inside \in BOOLEAN
    /\ now = 0
    /\ _notes_dirty = FALSE /\ _last_event_time = 0
    /\ _timer = <<>> /\ late = {}
    /\ fired = {} /\ last_event = NoEvent
    /\ cb = [n |-> 0, at |-> 0, arg |-> FALSE, since |-> FALSE]
    /\ NoManager
    /\ app_pc = "run_once" /\ app_sync_lock = "free"
    /\ watcher_syncs = 0 /\ callback_errors = 0

WatchNext ==
    \/ (\E outcome \in OnceOutcomes : RunOnce(outcome)) /\ UNCHANGED but_watch
    \/ (MonitorStart) /\ UNCHANGED but_watch
    \/ (\E e \in Events : WatchEvent(e)) /\ UNCHANGED but_watch
    \/ (WatchTimerRuns) /\ UNCHANGED but_watch
    \/ (WatchLateTimerRuns) /\ UNCHANGED but_watch
    \/ (WatchTick) /\ UNCHANGED but_watch
    \/ (KeyboardInterrupt) /\ UNCHANGED but_watch

WatchSpec == WatchInit /\ [][WatchNext]_all_vars

WatchTypeOK ==
    /\ app_pc \in {"none", "run_once", "construct", "watching", "stopped", "exited"}
    /\ app_sync_lock \in {"free", "held"}
    /\ watcher_syncs \in 0..(MaxMonitorEvents + 1)
    /\ callback_errors \in 0..(MaxMonitorEvents + 1)

\* ---------------------------------------------------------------------
\* Multi-project watch mode (src/multi_project_manager.py,
\* MultiProjectManager.run_all_watch): the main thread runs the initial sync
\* of each loaded project in turn, then a second loop calls start_monitoring
\* on the projects, then it sleeps until Ctrl+C and stop_all.  Each started
\* FileMonitor feeds the coalescer of its project (modelled above); here a
\* watcher-triggered run_sync is one step of the project that has a monitor.
\* ---------------------------------------------------------------------
MaxProjects == 3
MaxWatcherRuns == 2

\* self.projects: P1 .. Pn in insertion order
Projects == 1..MaxProjects

\* ProjectInstance.run_initial_sync: True when engine.run_sync(is_startup=True)
\* returned, False when it raised
run_initial_sync(threw) == IF threw THEN "False" ELSE "True"

\* one iteration of the first loop of run_all_watch (lines 332-336): the
\* result decides between the "skip" message followed by continue and the
\* separator line; the next iteration follows either
InitialSync(threw) ==
    /\ mgr_pc = "initial_sync"
    /\ initial_ok' = [initial_ok EXCEPT ![mgr_i] = run_initial_sync(threw)]
    /\ IF mgr_i < MaxProjects
       THEN mgr_i' = mgr_i + 1 /\ UNCHANGED mgr_pc
       ELSE mgr_i' = 1 /\ mgr_pc' = "start_monitors"
    /\ UNCHANGED <<monitors, watcher_runs>>

\* one iteration of the second loop (lines 340-344): project.start_monitoring()
\* for every project of self.projects; an exception of it is printed
StartMonitoring(threw) ==
    /\ mgr_pc = "start_monitors"
    /\ monitors' = IF threw THEN monitors
                   ELSE [monitors EXCEPT ![mgr_i] = "started"]
    /\ IF mgr_i < MaxProjects
       THEN mgr_i' = mgr_i + 1 /\ UNCHANGED mgr_pc
       ELSE mgr_i' = 0 /\ mgr_pc' = "sleeping"
    /\ UNCHANGED <<initial_ok, watcher_runs>>

\* a file change of project p reaches engine.run_sync through its monitor's
\* callback and _drain_dirty; a callback in flight can still do so after
\* stop_monitoring
WatcherSync(p) ==
    /\ monitors[p] # "none"
    /\ watcher_runs[p] < MaxWatcherRuns
    /\ watcher_runs' = [watcher_runs EXCEPT ![p] = @ + 1]
    /\ UNCHANGED <<mgr_pc, mgr_i, initial_ok, monitors>>

\* Ctrl+C in the sleep loop: stop_all calls stop_monitoring on every project
StopAll ==
    /\ mgr_pc = "sleeping"
    /\ mgr_pc' = "stopped"
    /\ monitors' = [p \in Projects |->
                       IF monitors[p] = "started" THEN "stopped" ELSE monitors[p]]
    /\ UNCHANGED <<mgr_i, initial_ok, watcher_runs>>

\* a MultiProjectManager with its projects loaded, on which run_all_watch is
\* called
ManagerInit ==
    /\ CoalescerInit /\ NoCall /\ NoStore /\ NoRequest /\ NoMonitor /\ NoStop
    /\ NoApp
    /\ mgr_pc = "initial_sync" /\ mgr_i = 1
    /\ initial_ok = [p \in Projects |-> "none"]
    /\ monitors = [p \in Projects |-> "none"]
    /\ watcher_runs = [p \in Projects |-> 0]

ManagerNext ==
    \/ (\E threw \in BOOLEAN : InitialSync(threw)) /\ UNCHANGED but_manager
    \/ (\E threw \in BOOLEAN : StartMonitoring(threw)) /\ UNCHANGED but_manager
    \/ (\E p \in Projects : WatcherSync(p)) /\ UNCHANGED but_manager
    \/ (StopAll) /\ UNCHANGED but_manager

ManagerSpec == ManagerInit /\ [][ManagerNext]_all_vars

ManagerTypeOK ==
    /\ mgr_pc \in {"none", "initial_sync", "start_monitors", "sleeping", "stopped"}
    /\ mgr_i \in 0..MaxProjects
    /\ mgr_pc # "none" =>
          /\ initial_ok \in [Projects -> {"none", "True", "False"}]
          /\ monitors \in [Projects -> {"none", "started", "stopped"}]
          /\ watcher_runs \in [Projects -> 0..MaxWatcherRuns]

\* ------------------------------------------------------------------ claims
AllIdle == drains = EmptyBag
NoTimerPending == \A t \in Timers : timer[t] = NotPending
Quiescent == AllIdle /\ ev_pc = "idle" /\ NoTimerPending

\* C1: mutual exclusion.  Under every interleaving at most one drain callback
\* is inside engine.run_sync; a callback is between acquire and release only
\* while sync_lock is locked, the external holder does not hold it and no
\* other callback is there; and the acquire never blocks: a callback at line
\* 199 can always take its step.
C1_MutualExclusion ==
    /\ CountAt({"running"}) <= 1
    /\ CountAt(InLock) <= 1
    /\ CountAt(InLock) = 1 => (sync_lock /\ ~ext_holds)
    /\ \A r \in At({"acquire"}) : ENABLED DrainAcquire(r)

\* C1 witness: one callback is inside run_sync while another one has just
\* found the lock busy.
C1_Witness == At({"running"}) # {} /\ At({"busy_arm"}) # {}

\* the scenario of one burst: every event so far was fully delivered before
\* the first timer expired, and no event has arrived since
OneBurst == burst = "closed"

\* C2: coalescing.  After n >= 1 asset-only events, all delivered before the
\* debounce timer fires, with sync_lock never taken by another holder and
\* run_sync returning normally: the expiry leads to exactly one run_sync
\* call, given captionsChanged=false; at no moment have more calls begun, and
\* once the callback has returned no timer is pending and nothing is dirty.
C2_Coalescing ==
    (OneBurst /\ ~everNotes /\ ~extEver /\ ~failedEver) =>
        /\ nCalls <= 1
        /\ \A r \in At({"running"}) : r.current_notes_dirty = FALSE
        /\ AllIdle => (nCalls = 1 /\ NoTimerPending /\ ~dirty /\ ~sync_lock)

\* C2 witness: two asset-only events in one burst, the expiry's callback
\* has returned, one call was made.
C2_Witness ==
    /\ OneBurst /\ evLog = <<FALSE, FALSE>> /\ ~extEver /\ ~failedEver
    /\ AllIdle /\ nCalls = 1

\* C3: captions-dirty monotonicity.  _notes_dirty always equals the OR of the
\* flags of the events recorded since the flags were last snapshotted (so no
\* asset-only event clears it), it falls only in the snapshot step of a
\* drained round, and every run_sync call is given the OR of the flags of the
\* events of its window, whatever their order.
C3_WindowOr ==
    /\ notes_dirty = winOr
    /\ \A r \in At({"running"}) :
          r.current_notes_dirty = OrOf(r.winFrom + 1, r.evAtSnap)

C3_ClearedOnlyBySnapshot ==
    (notes_dirty /\ ~notes_dirty') => \E r \in Running : DrainSnapshot(r)

C3_CaptionsMonotonic == [](C3_WindowOr) /\ [][C3_ClearedOnlyBySnapshot]_vars

\* C3 witness: a caption event, then an asset-only event, in one window; the
\* single round's call runs with captionsChanged=true.
C3_Witness ==
    /\ OneBurst /\ evLog = <<TRUE, FALSE>> /\ nCalls = 1
    /\ \E r \in At({"running"}) : r.current_notes_dirty = TRUE

\* the pending timer the handle names is a retry timer
RetryArmed == dirty_timer # NoTimer /\ timer[dirty_timer] = RETRY_S

\* C4: lock-busy retry, no drop.  While another holder has sync_lock no
\* callback is past the acquire, so no run_sync call begins; a callback that
\* found the lock busy makes no call, leaves dirty as it is and arms a retry
\* timer as it returns; and in a burst whose drain met the busy lock (run_sync
\* returning normally) the event is not dropped: until the call is made dirty
\* stays set and a timer is pending or a callback is in flight (the retry
\* timer, once the busy callback has returned), at most one call is ever
\* made, and when everything has come to rest exactly one call has been made.
C4_BusyState ==
    /\ ext_holds => At(InLock) = {}
    /\ (OneBurst /\ busyNd # "none" /\ ~failedEver) =>
          /\ nCalls <= 1
          /\ (nCalls = 0) => (dirty /\ (~NoTimerPending \/ ~AllIdle))
          /\ (nCalls = 0 /\ AllIdle) => RetryArmed
          /\ (AllIdle /\ NoTimerPending) => nCalls = 1

C4_BusyStep ==
    \A r \in At({"busy_arm"}) :
        DrainBusyArm(r) => (RetryArmed' /\ dirty' = dirty /\ nCalls' = nCalls)

C4_LockBusyRetry == [](C4_BusyState) /\ [][C4_BusyStep]_vars

\* C4 witness: the event met the busy lock, the lock was released, and the
\* callback of the retry timer is inside the one run_sync call.
C4_Witness ==
    /\ OneBurst /\ busyNd # "none" /\ ~failedEver /\ ~ext_holds /\ nCalls = 1
    /\ At({"running"}) # {}

\* C5: a drain attempt that finds sync_lock unavailable changes neither
\* _dirty nor _notes_dirty, and re-arms with the interval RETRY_S; so the
\* run_sync call made once the lock is free carries the captionsChanged
\* value that was pending at the failed attempt.
C5_FrameStep ==
    /\ \A r \in At({"acquire"}) :
          (DrainAcquire(r) /\ sync_lock) => (flags' = flags /\ tmr' = tmr)
    /\ \A r \in At({"busy_arm"}) :
          DrainBusyArm(r) => (flags' = flags /\ RetryArmed')

C5_CarriesPending ==
    (OneBurst /\ busyNd # "none" /\ ~failedEver) =>
        \A r \in At({"running"}) : r.current_notes_dirty = (busyNd = "T")

C5_BusyLeavesFlags == [](C5_CarriesPending) /\ [][C5_FrameStep]_vars

\* C5 witness: a caption event met the busy lock; after the release the call
\* runs with captionsChanged=true.
C5_Witness ==
    /\ OneBurst /\ busyNd = "T" /\ ~failedEver /\ ~ext_holds
    /\ \E r \in At({"running"}) : r.current_notes_dirty = TRUE

\* C6: follow-up round bound.  If events arrive strictly during the
\* execution of the first round's run_sync (however many), exactly one more
\* round is executed after it: never more than two run_sync calls begin, and
\* when everything has come to rest there were exactly two.  If no event
\* arrives after the burst and run_sync returns normally, no follow-up is
\* scheduled and there is no further call.
C6_FollowUpBound ==
    /\ (burst = "during" /\ ~failedEver) =>
          /\ nCalls <= 2
          /\ Quiescent => nCalls = 2
    /\ (burst = "closed" /\ ~failedEver) =>
          /\ nCalls <= 1
          /\ At({"followup_arm"}) = {}

\* C7: the captions flag of a follow-up round reflects only the events that
\* arrived after the previous round snapshotted and cleared the flags.  When
\* events arrive during the first round's run_sync, the second run_sync call
\* is given the OR of the flags of exactly those events: true if one of them
\* was a caption event, false if all were asset-only, whatever the first
\* round itself was given.
C7_FollowUpCaptions ==
    (burst = "during" /\ nCalls = 2) =>
        \A r \in At({"running"}) :
            /\ r.winFrom >= 1
            /\ r.winFrom < Len(evLog)
            /\ r.current_notes_dirty = OrOf(r.winFrom + 1, Len(evLog))

\* C7 witness: the first round was given captionsChanged=true (a caption
\* event), an asset-only event arrived during it, and the follow-up call runs
\* with captionsChanged=false.
C7_Witness ==
    /\ burst = "during" /\ nCalls = 2 /\ evLog = <<TRUE, FALSE>>
    /\ \E r \in At({"running"}) : r.winFrom = 1 /\ r.current_notes_dirty = FALSE

\* C8: no event is silently lost.  Whatever the coalescer is doing when an
\* event is recorded (idle, timer pending, retrying on a busy lock, a sync
\* running), if armed timers fire, callbacks run on, run_sync invocations end
\* and the other holder of sync_lock eventually lets go of it for good, then
\* a run_sync invocation begins after the event was recorded: some callback
\* snapshots the flags, taking the event into its window, and calls run_sync.
C8_NoEventLost ==
    (<>[](~ext_holds)) =>
        \A i \in 1..MaxEvents : (Len(evLog) >= i) ~> (winStart >= i)

\* C8 witness: the second event was recorded while a round was running with
\* another callback retrying on the busy lock, and a later round has taken it.
C8_Witness ==
    /\ burst = "during" /\ busyNd # "none"
    /\ Len(evLog) = 2 /\ winStart = 2 /\ nCalls >= 2

\* C9: self-healing on failure.  When run_sync raises in a drained round the
\* callback goes on in its handler (the exception does not leave it): it sets
\* _dirty back to true, arms a retry timer, and releases sync_lock; _dirty
\* stays set while it still holds the lock; from the handler on a timer is
\* pending or another callback is in flight, and no callback ever returns
\* leaving _dirty set with nothing armed; so, with no new event, another
\* run_sync invocation begins (once the other holder of sync_lock has let go
\* of it for good).
C9_FailedState ==
    /\ \A r \in At({"except_arm", "release"}) : r.failed /\ dirty /\ sync_lock
    /\ \A r \in At({"release"}) : ~NoTimerPending \/ BagCardinality(drains) >= 2
    /\ (dirty /\ AllIdle /\ ev_pc = "idle") => ~NoTimerPending

C9_FailedStep ==
    \A r \in Running :
        /\ DrainRaise(r) => (dirty' /\ sync_lock' /\ CountAt({"except_arm"})' = 1)
        /\ DrainExceptArm(r) => (RetryArmed' /\ dirty' /\ CountAt({"release"})' = 1)
        /\ DrainRelease(r) => (~sync_lock' /\ dirty')

C9_Retried ==
    (<>[](~ext_holds)) => ((At({"except_arm"}) # {}) ~> (At({"running"}) # {}))

C9_SelfHealing == [](C9_FailedState) /\ [][C9_FailedStep]_vars /\ C9_Retried

\* C9 witness: one event, its round failed, the failed callback has returned,
\* and a second run_sync call is running with no event having arrived since.
C9_Witness ==
    /\ evLog = <<FALSE>> /\ failedEver /\ nCalls = 2
    /\ CountAt({"running"}) = 1 /\ BagCardinality(drains) = 1

\* C10 as stated: every retry loop has a maximum attempt count, so from a
\* single event with no further events only a bounded number of drain
\* attempts and run_sync invocations is made, even when run_sync raises every
\* time or sync_lock stays held: from some moment on no timer is pending and
\* no callback is in flight.
C10_BoundedRetries == ([](nEvents <= 1)) => <>[]Quiescent

\* C10 as amended: the coalescer has no attempt count, and retries for as long
\* as run_sync keeps raising or sync_lock stays held; but the retries are no
\* storm: at most one timer is pending at any time and it is the stored one,
\* and once the other holder has let go of sync_lock for good and run_sync
\* has stopped raising, the attempts end: from some moment on no timer is
\* pending and no callback is in flight.
C10_OneTimer ==
    /\ Cardinality({t \in Timers : timer[t] # NotPending}) <= 1
    /\ \A t \in Timers : timer[t] # NotPending => dirty_timer = t

C10_Settles ==
    ((<>[](~ext_holds)) /\ <>[](At({"except_arm"}) = {})) => <>[]Quiescent

C10_NoRetryStorm == [](C10_OneTimer) /\ C10_Settles

\* C10 witness: a single event, two rounds failed and were retried, the third
\* returned normally, and everything has come to rest.
C10_Witness ==
    /\ evLog = <<FALSE>> /\ failedEver /\ nCalls = 3
    /\ Quiescent /\ ~dirty /\ ~sync_lock

\* ------------------------------------------------- claims about run_sync
\* the diff of this call has been computed
DiffDone ==
    pc \in {"decide", "notes_push", "deleting", "uploading", "update_page", "push",
            "save", "returned"}
InBoth == DOMAIN local_files \cap DOMAIN remote_state
\* the call took the full-resync path (line 132)
TookFullPath == args.is_startup \/ ~at_call.cache_file.exists

\* C11: diff correctness.  For every local map L and remote map R the diff
\* has toAdd = keys(L) - keys(R), toDelete = keys(R) - keys(L) and toUpdate =
\* the keys in both whose hashes differ; the three sets are pairwise disjoint,
\* a key in both with identical hashes is in none of them, and has_changes()
\* is false iff all three are empty.
C11_DiffCorrect ==
    DiffDone =>
        /\ diff.to_add = DOMAIN local_files \ DOMAIN remote_state
        /\ diff.to_delete = DOMAIN remote_state \ DOMAIN local_files
        /\ diff.to_update = {k \in InBoth : local_files[k].hash # remote_state[k].hash}
        /\ diff.to_add \cap diff.to_delete = {}
        /\ diff.to_add \cap diff.to_update = {}
        /\ diff.to_update \cap diff.to_delete = {}
        /\ \A k \in InBoth :
              local_files[k].hash = remote_state[k].hash =>
                  k \notin diff.to_add \cup diff.to_update \cup diff.to_delete
        /\ ~has_changes(diff) <=>
              (diff.to_add = {} /\ diff.to_update = {} /\ diff.to_delete = {})

\* a diff with a changed file and a file to delete, and nothing to add
C11_Witness ==
    /\ pc = "decide" /\ diff.to_update # {} /\ diff.to_delete # {}
    /\ diff.to_add = {}

\* C12: the hash comparison in the diff is case-normalized for hex digests.  A
\* filename present locally and remotely whose two hashes differ only in the
\* letter case of hex digits is treated as unchanged: it is not in toUpdate.
C12_CaseNormalized ==
    DiffDone =>
        \A k \in InBoth :
            compare(local_files[k].hash, remote_state[k].hash) => k \notin diff.to_update

NoAttachmentOps ==
    \A f \in Files : calls.delete_attachment[f] = 0 /\ calls.upload_attachment[f] = 0
NoPush == calls.update_page_content = 0 /\ page = at_call.page
NoSave == cache_file = at_call.cache_file /\ history_file = at_call.history_file
\* run_sync returned at line 148
ShortCircuited ==
    /\ pc = "returned"
    /\ ~args.is_startup /\ ~args.notes_dirty /\ ~has_changes(diff)

\* C13 as stated: when run_sync is called with is_startup=false, the diff is
\* empty and captionsChanged=false, it returns with no action: no attachment
\* delete or upload, no page read-for-write or push, no history entry added,
\* no state-store mutation and no save().
C13_NoAction ==
    ShortCircuited =>
        /\ NoAttachmentOps /\ NoPush /\ NoSave
        /\ state_remote = at_call.state_remote
        /\ state_history = at_call.state_history

\* C13: short-circuit.  When run_sync is called with is_startup=false, the
\* diff is empty and captionsChanged=false, it returns with no attachment
\* delete or upload, no page push, no appearance call, no history entry
\* added, no change to the store's remote-asset map and no save().  With a
\* cache file it asks the server nothing and leaves the store's history
\* alone; without one the full resync before the diff has read the page and
\* the listing once and has replaced the store's history in memory by the one
\* parsed from the page.
C13_ShortCircuit ==
    ShortCircuited =>
        /\ NoAttachmentOps /\ NoPush /\ NoSave
        /\ calls.set_page_appearance = 0 /\ ~appearance_set
        /\ state_remote = at_call.state_remote
        /\ calls.get_page_content = (IF TookFullPath THEN 1 ELSE 0)
        /\ calls.get_all_attachments = (IF TookFullPath THEN 1 ELSE 0)
        /\ state_history =
              IF TookFullPath THEN parse_history_from_page(at_call.page, history_keep)
              ELSE at_call.state_history

\* a short-circuit return after a full resync that found the attachments
\* equal to the local files, and replaced the history
C13_Witness ==
    /\ ShortCircuited /\ TookFullPath
    /\ DOMAIN local_files # {}
    /\ state_history # at_call.state_history

\* the call was one for the light path (lines 150-154) and has ended
LightPathEnded ==
    /\ pc \in {"returned", "raised"}
    /\ ~args.is_startup /\ args.notes_dirty /\ ~has_changes(diff)
Persisted ==
    /\ cache_file = [exists |-> TRUE, content |-> state_remote]
    /\ history_file = [exists |-> TRUE, content |-> state_history]

\* C14: light path.  When run_sync is called with is_startup=false, the diff
\* is empty and captionsChanged=true, it rebuilds the full page body from the
\* local assets, pushes it once with version+1 and persists the state; it
\* performs no attachment delete or upload and leaves the store's
\* remote-asset map as it was (also when a request of the light path fails).
C14_LightPath ==
    LightPathEnded =>
        /\ NoAttachmentOps
        /\ state_remote = at_call.state_remote
        /\ pc = "returned" =>
              /\ calls.update_page_content = 1
              /\ page.version = at_call.page.version + 1
              /\ page.assets = DOMAIN local_files
              /\ page.history = get_history_slice(state_history, history_keep)
              /\ Persisted

\* a light-path call that pushed a page listing local files
C14_Witness ==
    /\ LightPathEnded /\ pc = "returned"
    /\ DOMAIN local_files # {}
    /\ page.version = at_call.page.version + 1

\* C15: dry-run never mutates anything.  For every combination of is_startup,
\* captionsChanged and diff contents, run_sync(dry_run=true) performs no
\* attachment delete or upload, no page push, no appearance call, no change
\* to the store's remote-asset map or history, and no save().
C15_DryRunNoMutation ==
    args.dry_run =>
        /\ NoAttachmentOps /\ NoPush /\ NoSave
        /\ calls.set_page_appearance = 0
        /\ state_remote = at_call.state_remote
        /\ state_history = at_call.state_history

\* an upload of this run has been issued: submitted to the pool, or requested
UploadIssued ==
    \/ DOMAIN upload_futures # {}
    \/ \E f \in Files : calls.upload_attachment[f] > 0

\* C16: ordering within one run.  Every delete of the diff has completed and
\* its result has been taken (the delete pool is joined) before any upload
\* for toAdd or toUpdate is issued; no upload runs while a delete of the run
\* is outstanding.
C16_DeletesBeforeUploads ==
    UploadIssued =>
        /\ DOMAIN delete_futures = diff.to_delete
        /\ \A g \in diff.to_delete :
              /\ delete_futures[g] \in {"got_True", "got_False"}
              /\ calls.delete_attachment[g] = 1

\* an upload is running in a run that also had a file to delete
C16_Witness ==
    /\ pc = "uploading" /\ Busy(upload_futures) # {}
    /\ diff.to_delete # {}

\* _execute_operations has returned
OpsDone == pc = "update_page"
Succeeded(futures, f) == futures[f] = "got_True"
NewEntry(f) == [id |-> NewId(f), hash |-> local_files[f].hash]
\* the store's map has for f what it had when run_sync was called
EntryUnchanged(f) ==
    /\ f \in DOMAIN state_remote <=> f \in DOMAIN at_call.state_remote
    /\ f \in DOMAIN state_remote => state_remote[f] = at_call.state_remote[f]
CacheIndependence ==
    /\ \A f \in diff.to_delete :
          /\ Succeeded(delete_futures, f) => f \notin DOMAIN state_remote
          /\ ~Succeeded(delete_futures, f) =>
                EntryUnchanged(f) /\ f \in DOMAIN state_remote
          /\ calls.delete_attachment[f] <= 1
    /\ \A f \in diff.to_add :
          /\ Succeeded(upload_futures, f) =>
                f \in DOMAIN state_remote /\ state_remote[f] = NewEntry(f)
          /\ ~Succeeded(upload_futures, f) => f \notin DOMAIN state_remote
          /\ calls.upload_attachment[f] <= 1
    /\ \A f \in diff.to_update :
          /\ Succeeded(upload_futures, f) =>
                f \in DOMAIN state_remote /\ state_remote[f] = NewEntry(f)
          /\ ~Succeeded(upload_futures, f) =>
                EntryUnchanged(f) /\ f \in DOMAIN state_remote
          /\ calls.upload_attachment[f] <= 1

\* C17: per-operation independence of the cache.  After _execute_operations a
\* filename in toDelete is removed from the store's remote-asset map iff its
\* delete succeeded (a failed delete leaves the entry unchanged); a filename
\* in toAdd or toUpdate is set to (new id, local hash) iff its upload
\* returned an id (a failed add leaves it absent, a failed update leaves the
\* old id and hash); each operation is attempted at most once per run.
C17_CacheIndependence == OpsDone => CacheIndependence

\* the same on the cached path only, where the diff was taken against the
\* store's own map
C17_OnCachedPath == (OpsDone /\ ~TookFullPath) => CacheIndependence

\* the operations of the run: some failed, all failed
Ops == DOMAIN delete_futures \cup DOMAIN upload_futures
Failed(f) ==
    \/ f \in DOMAIN delete_futures /\ delete_futures[f] \in {"False", "got_False"}
    \/ f \in DOMAIN upload_futures /\ upload_futures[f] \in {"False", "got_False"}
\* run_sync went through _execute_operations and returned at its end
RanToEnd ==
    /\ pc = "returned" /\ ~args.dry_run
    /\ has_changes(diff) \/ args.is_startup
C18_EndState ==
    RanToEnd =>
        /\ state_history # <<>> /\ Head(state_history) = "sync"
        /\ calls.update_page_content = 1
        /\ page.version = at_call.page.version + 1
        /\ Persisted
\* while the pools work, no step raises, and when they are done the page
\* update is the next step whatever failed
C18_NoRaiseStep ==
    /\ pc \in {"deleting", "uploading"} => pc' \in {"deleting", "uploading", "update_page"}
    /\ pc = "update_page" => ENABLED UpdatePageRead
    /\ pc = "push" => ENABLED UpdatePage

\* C18: partial failure is not fatal.  When any subset (including all) of the
\* delete and upload operations of a run fail, run_sync raises no exception
\* because of them and still goes on to add the history entry, push the page
\* and save() the state store.
C18_PartialFailureNotFatal == [][C18_NoRaiseStep]_all_vars /\ []C18_EndState

\* a run in which a delete and an upload were made and every one failed has
\* returned normally
C18_Witness ==
    /\ RanToEnd
    /\ DOMAIN delete_futures # {} /\ DOMAIN upload_futures # {}
    /\ \A f \in Ops : Failed(f)

\* _execute_operations has returned and every operation of the diff succeeded
AppliedAll ==
    /\ pc \in {"update_page", "save"} \/ RanToEnd
    /\ \A f \in diff.to_delete : Succeeded(delete_futures, f)
    /\ \A f \in diff.to_add \cup diff.to_update : Succeeded(upload_futures, f)

\* C19: end-to-end apply on a cached inventory.  For a run that uses the
\* cached remote inventory R and the local inventory L and in which every
\* operation succeeds, the store's remote-asset map afterwards has exactly
\* the keys of L; each added or updated key carries the new id and the local
\* hash, every deleted key is gone, and every key not in the diff keeps its
\* previous id and hash.
C19_ApplyOnCache ==
    (AppliedAll /\ ~TookFullPath) =>
        /\ DOMAIN state_remote = DOMAIN local_files
        /\ \A f \in diff.to_add \cup diff.to_update : state_remote[f] = NewEntry(f)
        /\ \A f \in diff.to_delete : f \notin DOMAIN state_remote
        /\ \A f \in DOMAIN at_call.state_remote
                    \ (diff.to_add \cup diff.to_update \cup diff.to_delete) :
              f \in DOMAIN state_remote /\ state_remote[f] = at_call.state_remote[f]

\* a cached run that changed one file and deleted another, all successful
C19_Witness ==
    /\ AppliedAll /\ ~TookFullPath /\ pc = "returned"
    /\ diff.to_update # {} /\ diff.to_delete # {}

\* the inventory `inv` with the run's successful deletes and uploads applied
Applied(inv) ==
    LET gone == {f \in diff.to_delete : Succeeded(delete_futures, f)}
        put == {f \in diff.to_add \cup diff.to_update : Succeeded(upload_futures, f)}
    IN [f \in (DOMAIN inv \ gone) \cup put |-> IF f \in put THEN NewEntry(f) ELSE inv[f]]

\* C20: a full resync rebuilds and persists the cache.  After a run that took
\* the full-resync path (is_startup=true or no cache file) completes, the
\* persisted remote-asset map is the inventory built from the attachment
\* listing with the run's successful deletes and uploads applied; every
\* remote attachment that was hashed and is unchanged locally has an entry in
\* the persisted map.
C20_FullResyncPersisted ==
    (RanToEnd /\ TookFullPath) =>
        /\ cache_file.exists
        /\ cache_file.content = Applied(remote_state)
        /\ \A f \in InBoth \ diff.to_update : f \in DOMAIN cache_file.content

\* ---------------------------------------- the page update and later calls
\* the step pushes a new body to the page
Pushes == calls'.update_page_content = calls.update_page_content + 1 /\ page' # page
\* the diff added or removed a file
AddedOrRemoved == diff.to_add # {} \/ diff.to_delete # {}
C21_PushStep ==
    (pc = "push" /\ Pushes) =>
        IF AddedOrRemoved \/ args.is_startup \/ args.notes_dirty
        THEN page'.assets = DOMAIN local_files
        ELSE page'.assets = page.assets

\* C21: redraw scope.  A run that reaches the page update regenerates the
\* full page iff the diff added or removed anything, or is_startup, or
\* captionsChanged; otherwise (a non-startup run whose diff has only updates,
\* captionsChanged=false) only the history block is patched in place and the
\* rest of the current body is kept.
C21_RedrawScope == [][C21_PushStep]_all_vars

\* the step makes a delete or an upload request; the step sends a PUT of the
\* page; the step reads the page version into current_version
AttachmentCall ==
    \E f \in Files : \/ calls'.delete_attachment[f] = calls.delete_attachment[f] + 1
                     \/ calls'.upload_attachment[f] = calls.upload_attachment[f] + 1
Puts == calls'.update_page_content = calls.update_page_content + 1
ReadsVersion == current_version = 0 /\ current_version' # 0
C22_Step ==
    /\ ReadsVersion =>
          /\ current_version' = page.version
          /\ Joined(delete_futures) /\ Joined(upload_futures)
          /\ pc \notin {"deleting", "uploading"}
    /\ (run' = run /\ (AttachmentCall \/ pools' # pools)) => current_version = 0
    /\ Puts =>
          /\ current_version # 0 /\ obs.read_run = run
          /\ obs'.put = current_version + 1
          /\ page' # page => page'.version = current_version + 1

\* C22: version control of the push.  In every run that pushes the page (full
\* path and light path), the page version is read after all attachment
\* operations of that run and before the write, and the write targets exactly
\* that version + 1; no push uses a version read in an earlier run.
C22_VersionControl == [][C22_Step]_all_vars

\* a later run has uploaded a file, read the version after somebody else's
\* edit and pushed the page on top of it
C22_Witness ==
    /\ run > 1 /\ pc = "save" /\ obs.edits = 1
    /\ \E f \in Files : calls.upload_attachment[f] = 1
    /\ page.version = obs.put /\ page.version = at_call.page.version + 2

\* C23: the page appearance is applied once per lifetime.  Over any sequence
\* of run_sync calls on one engine instance, after the first
\* set_page_appearance call that returns successfully no later run calls
\* set_page_appearance again.
C23_AppearanceOnce ==
    [][obs.appearance_ok =>
          calls'.set_page_appearance <= calls.set_page_appearance]_all_vars

\* a later run pushes the page without the appearance call, an earlier one
\* having made it
C23_Witness ==
    /\ run > 1 /\ pc = "save" /\ calls.update_page_content = 1
    /\ calls.set_page_appearance = 0 /\ obs.appearance_ok

\* the previous run made every operation of a non-empty diff and then raised
\* at the page push; the local folder is as it was
AfterFailedPush ==
    /\ run > 1 /\ prev.raised_at = "update_page_content"
    /\ has_changes(prev.diff) /\ prev.applied
    /\ local_files = prev.local_files

\* C24: a failed page push aborts the run without persisting state, and the
\* next run recomputes the same diff and retries the whole flow: if run N
\* applied its attachment operations and then the page push raised, run N+1
\* in the same process (is_startup=false, local folder unchanged) computes the
\* same non-empty diff as run N and again attempts the operations and the
\* page push.
C24_RetryAfterFailedPush ==
    (AfterFailedPush /\ DiffDone) =>
        /\ at_call.cache_file = prev.cache_file
        /\ diff = prev.diff /\ has_changes(diff)

\* ------------------------------------------------------- the state store
\* add_history_entry calls made since the history was loaded empty
N_adds == Len(sgh.since)
CapOf(n, k) == IF n < k THEN n ELSE k
CountedFromEmpty == sm_pc = "ready" /\ sgh.tracked

\* C25: history cap invariant.  Starting from an empty history, after N
\* add_history_entry calls with keep=K the stored history has exactly
\* min(N, K) entries, ordered newest first, with the oldest entries beyond K
\* discarded; the history length never exceeds the configured cap for any
\* configured K (including K = 0).
C25_HistoryCap ==
    CountedFromEmpty =>
        /\ Len(sm.history) = CapOf(N_adds, cfg_keep)
        /\ sm.history = SubSeq(sgh.since, 1, CapOf(N_adds, cfg_keep))
        /\ Len(sm.history) <= cfg_keep

\* the same for a positive K
C25_PositiveCap == cfg_keep > 0 => C25_HistoryCap

\* the object was saved, then a fresh StateManager was constructed on the
\* two files
ReloadedAfterSave == sm_pc = "ready" /\ sgh.fresh /\ sgh.phase = "saved"

\* C26: state round-trip.  For any remote-asset map and history list held in
\* a StateManager, save() followed by constructing a fresh StateManager on
\* the same two files yields a remote-asset map and history list equal to
\* the saved ones.
C26_RoundTrip ==
    ReloadedAfterSave =>
        /\ sm.remote_state = sgh.held.remote_state
        /\ sm.history = sgh.held.history
        /\ sm.load_warnings = <<>>

\* a map with the filename "図é" and a history of two entries came back
C26_Witness ==
    /\ ReloadedAfterSave
    /\ <<22259, 233>> \in DOMAIN sm.remote_state
    /\ Len(sm.history) = 2

Docs == {"cache", "history"}
\* the two files as the save that began last writes them
NewFiles ==
    [cache |-> File(dump_remote_state(sgh.held.remote_state)),
     history |-> File(dump_history(sgh.held.history))]
Parses(f) == ~f.exists \/ json_load(f.text).ok
ReloadedAfterCrash == sm_pc = "ready" /\ sgh.fresh /\ sgh.phase = "crashed"

\* C27: atomic save.  If the process crashes at any step of save() (while
\* writing a temp file, between the temp write and the rename, or between the
\* two documents), each destination document on disk holds either its
\* complete previous content or its complete new content, never a partially
\* written one, so a subsequent load parses both.
C27_AtomicSave ==
    /\ sgh.phase \in {"saving", "crashed"} =>
          \A doc \in Docs : files[doc] \in {sgh.old[doc], NewFiles[doc]}
    /\ (ReloadedAfterCrash /\ \A doc \in Docs : Parses(sgh.old[doc])) =>
          /\ sm.load_warnings = <<>>
          /\ \/ sm.remote_state = sgh.held.remote_state
             \/ files.cache = sgh.old.cache
          /\ \/ sm.history = sgh.held.history
             \/ files.history = sgh.old.history

\* a crash between the two documents: the new cache file beside the old
\* history file, both loaded
C27_Witness ==
    /\ ReloadedAfterCrash
    /\ \A doc \in Docs : Parses(sgh.old[doc])
    /\ files.cache = NewFiles.cache /\ files.cache # sgh.old.cache
    /\ files.history = sgh.old.history /\ files.history # NewFiles.history

Unparsable(doc) == files[doc].exists /\ ~json_load(files[doc].text).ok
Count(seq, x) == Cardinality({i \in DOMAIN seq : seq[i] = x})
JustLoaded == sm_pc = "ready" /\ sgh.fresh
\* the constructor, once begun, goes through both documents and returns
C28_ConstructorStep ==
    /\ (sm_pc \in {"unbuilt", "dead"} /\ sm_pc' # sm_pc) => sm_pc' = "load_history"
    /\ (sm_pc = "load_history" /\ sm_pc' # sm_pc) => sm_pc' = "ready" /\ JustLoaded'
C28_Loaded ==
    JustLoaded =>
        /\ (~files.cache.exists \/ Unparsable("cache")) => sm.remote_state = <<>>
        /\ (~files.history.exists \/ Unparsable("history")) => sm.history = <<>>
        /\ \A doc \in Docs :
              Count(sm.load_warnings, doc) = IF Unparsable(doc) THEN 1 ELSE 0
        /\ Len(sm.load_warnings) = Cardinality({doc \in Docs : Unparsable(doc)})

\* C28: load never crashes.  Constructing a StateManager yields an empty
\* map/list for each document that is missing (with no warning) and an empty
\* map/list plus exactly one recorded load warning for each document that
\* exists but cannot be parsed; the two documents are handled independently
\* and no exception escapes the constructor.
C28_LoadNeverCrashes == [][C28_ConstructorStep]_all_vars /\ []C28_Loaded

\* a cache file that ends early beside a missing history file: one warning
C28_Witness ==
    /\ JustLoaded
    /\ Unparsable("cache") /\ ~files.history.exists
    /\ sm.load_warnings = <<"cache">>
    /\ sm.remote_state = <<>> /\ sm.history = <<>>

\* ------------------------------------------------------ the request loop
Finished == rq_pc \in {"returned", "raised"}
Codes(S) == sent # <<>> /\ \A i \in DOMAIN sent : sent[i].code \in S

\* C29: retry ceiling of the remote client.  A _request whose every attempt
\* gets HTTP 500 (likewise 429, 409 or any 5xx) issues exactly max_attempts
\* HTTP requests and then raises; a _request whose first attempt gets HTTP
\* 404 (any 4xx other than 409/429) issues exactly one HTTP request and
\* raises immediately.
C29_RetryCeiling ==
    /\ Len(sent) <= max_attempts
    /\ Codes({429, 409} \cup 500..599) =>
          /\ rq_pc # "returned"
          /\ Finished => Len(sent) = max_attempts
          /\ (Len(sent) = max_attempts /\ rq_pc = "loop") => ENABLED Exhausted
    /\ (sent # <<>> /\ sent[1].code \in 400..499 \ {409, 429}) =>
          Len(sent) = 1 /\ rq_pc = "raised"

\* max_attempts requests answered 500 each, a sleep after each, then the
\* call raised
C29_Witness ==
    /\ rq_pc = "raised" /\ raised = "RuntimeError"
    /\ Len(sent) = max_attempts /\ Len(slept) = max_attempts
    /\ Codes({500})

\* the events that the filter of the caption directory is to drop: a name
\* that starts with "~$" or "._", a directory, a name other than the caption
\* file's
Filtered(e) ==
    /\ e.dir = "caption"
    /\ \/ startswith(e.name, <<126, 36>>)
       \/ startswith(e.name, <<46, 95>>)
       \/ e.is_directory
       \/ lower(e.name) \notin allowed_names

\* an editor's or the OS's temporary file in the caption directory
TempFile(e) ==
    /\ e.dir = "caption" /\ ~e.is_directory
    /\ startswith(e.name, <<126, 36>>) \/ startswith(e.name, <<46, 95>>)

\* an event on the caption file itself
OnCaption(e) ==
    /\ e.dir = "caption" /\ ~e.is_directory
    /\ lower(e.name) \in allowed_names

C30_EventStep ==
    /\ (last_event'.n # last_event.n /\ Filtered(last_event'.event))
           => _notes_dirty' = _notes_dirty /\ _timer' = _timer
    /\ (_notes_dirty' /\ ~_notes_dirty)
           => last_event'.n # last_event.n /\ OnCaption(last_event'.event)

C30_NoCallback ==
    /\ _timer # <<>> => ~Filtered(_timer.by)
    /\ \A f \in fired : ~Filtered(f.by)

\* C30: an event in the caption directory whose name starts with "~$" or
\* "._", or that is a directory event, or that names a file other than the
\* caption file, leaves _notes_dirty alone, arms no timer and leads to no
\* callback; only an event on the caption file's name raises _notes_dirty.
C30_TempFileFilter == [][C30_EventStep]_all_vars /\ []C30_NoCallback

\* the same for temporary files alone: no callback comes from a timer that
\* an event on a "~$" or "._" name in the caption directory armed
C30_TempFilesOnly == \A f \in fired : ~TempFile(f.by)

\* a run_sync call that is the retry of a failed first call: the first call
\* raised, every event came before the first timer fired, and the second
\* snapshot took no event
RetryOfFailedFirst(r) ==
    /\ r.pc = "running"
    /\ nCalls = 2 /\ failedEver /\ burst = "closed"
    /\ r.winFrom = r.evAtSnap

\* C31: the captions-changed signal survives a failed round.  If a drained
\* round called run_sync with notes_dirty=True and run_sync raised, the
\* retried round, with no caption event in between, calls run_sync with
\* notes_dirty=True again.
C31_CaptionsSurviveFailure ==
    \A r \in Running :
        (RetryOfFailedFirst(r) /\ OrOf(1, r.winFrom)) => r.current_notes_dirty

\* a failed round returns: from line 240 with _dirty unset, or from line 245
FailedReturn(r) ==
    /\ r.failed
    /\ r.evAtSnap = Len(evLog)
    /\ DrainFollowupArm(r) \/ (DrainNeedsMore(r) /\ ~dirty)

C32_ReturnStep == \A r \in Running : FailedReturn(r) => RetryArmed'

\* C32: after a drained round whose run_sync raised, no event having arrived
\* during it, the timer that is armed when _drain_dirty returns is the retry
\* timer of RETRY_S seconds, not a timer of MERGE_WINDOW_S seconds.
C32_RetryTimerLeft == [][C32_ReturnStep]_all_vars

\* the timers that are neither fired nor cancelled
Armed == {t \in Timers : timer[t] # NotPending}

C33_OneArmed == Cardinality(Armed) <= 1

\* a step that starts a timer leaves no other timer armed
C33_ArmCancels ==
    \A t \in Timers :
        (timer'[t] # NotPending /\ timer'[t] # timer[t]) => Armed' = {t}

\* _dirty, _notes_dirty and the handle change only in the steps of
\* _on_file_change and _drain_dirty, which hold _dirty_lock
C33_UnderLock ==
    (dirty' # dirty \/ notes_dirty' # notes_dirty \/ dirty_timer' # dirty_timer)
        => stop_pc' = stop_pc

\* C33: single armed timer.  In every reachable state at most one timer that
\* is neither fired nor cancelled exists; every arming of a timer first
\* cancels the stored one; and every read and write of _dirty, _notes_dirty
\* and the timer handle happens under _dirty_lock.
C33_SingleArmedTimer ==
    [](C33_OneArmed) /\ [][C33_ArmCancels /\ C33_UnderLock]_all_vars

C37_NoCallStep ==
    stop_pc = "returned" => \A r \in Running : ~DrainSnapshot(r)

C37_NoTimer == stop_pc = "returned" => NoTimerPending

\* C37: no sync after stop.  Once stop_monitoring has returned no run_sync
\* call begins and no timer is armed, however stop_monitoring interleaves
\* with a pending timer, a lock-busy retry or a round in flight.
C37_NoSyncAfterStop == [][C37_NoCallStep]_all_vars /\ [](C37_NoTimer)

\* the call follows a call that ran to its end with every operation
\* succeeding (downloads of the full resync included), the local folder is as
\* it was, the call is made with is_startup=False and notes_dirty=False, and
\* no download of its own fails
AfterCleanRun ==
    /\ run > 1 /\ prev.raised_at = "none" /\ prev.applied /\ prev.missed = {}
    /\ local_files = prev.local_files
    /\ ~args.is_startup /\ ~args.notes_dirty
    /\ obs.missed = {}

\* C34: convergence.  After a run_sync that completes with every operation
\* succeeding, on the full-resync path or on the cache, the next
\* run_sync(is_startup=False, notes_dirty=False) with an unchanged local
\* folder computes an empty diff and makes no upload, no delete and no page
\* push.
C34_Convergence ==
    (AfterCleanRun /\ DiffDone) =>
        /\ ~has_changes(diff)
        /\ NoAttachmentOps
        /\ calls.update_page_content = 0

\* the attempts whose answer had a status of ok_status
OkAttempts == {i \in DOMAIN sent : sent[i].code \in ok_status}

C35_Outcome ==
    /\ Len(sent) <= max_attempts
    /\ \A i \in OkAttempts : i = Len(sent) /\ rq_pc = "returned"
    /\ rq_pc = "returned" => OkAttempts = {Len(sent)}
    /\ rq_pc = "raised" => OkAttempts = {} /\ raised # "None"

\* C35: for every sequence of per-attempt outcomes (a status of ok_status, a
\* retryable 429/409/5xx, a non-retryable 4xx, a transport error, any other
\* status) _request terminates after at most max_attempts HTTP requests; it
\* returns at the first attempt whose status is in ok_status, never returns a
\* response whose status is not, and raises otherwise.
C35_Terminates == [](C35_Outcome) /\ <>Finished

\* a 503, then a transport error, then a 201 that the call returned
C35_Witness ==
    /\ rq_pc = "returned" /\ Len(sent) = 3
    /\ sent[1].code = 503 /\ sent[2].code = 0 /\ sent[3].code = 201
    /\ Len(slept) = 2

\* the step makes a callback
Calls == cb'.n = cb.n + 1

C36_Step ==
    /\ Calls => now - _last_event_time >= delay
    /\ Calls => last_event.n > cb.at
    /\ (late' # late /\ late' \subseteq late) => ~Calls
    /\ Calls => cb'.arg = cb.since
    /\ (_notes_dirty /\ ~_notes_dirty') => Calls

\* C36: FileMonitor debounce.  For any burst of events passed to _schedule
\* the callback is made once, and only when `delay` or more has passed since
\* the most recent event; a timer superseded by a later event never makes the
\* callback; the callback's argument is the OR of the notes_dirty flags of
\* all events since the previous callback; and _notes_dirty is reset only
\* when the callback is made.
C36_Debounce == [][C36_Step]_all_vars

\* what holds of every callback: the quiet period, the argument, the reset
C36_QuietAndFlag ==
    /\ Calls => now - _last_event_time >= delay
    /\ Calls => cb'.arg = cb.since
    /\ (_notes_dirty /\ ~_notes_dirty') => Calls

\* ---------------------------------------------------------------------
\* C38: a missing target folder
\* ---------------------------------------------------------------------
\* the scan of this call met no target folder (sync_engine.py lines 361-363)
FolderMissing == ~target_folder.exists

\* the calling thread has left the delete pool's "with" block of this call
DeletesJoined == pc \in {"uploading", "update_page", "push", "save"}

\* the diff of this call has been computed and the call is still running
DiffKnown == pc \in {"decide", "deleting", "uploading", "update_page", "push", "save"}

\* C38 as stated: with the target folder missing, outside dry-run, every
\* filename of the remote snapshot has its remote attachment deleted and its
\* cache entry removed once the deletes of that run are over.
C38_AllDeleted ==
    (FolderMissing /\ ~args.dry_run /\ DeletesJoined) =>
        \A f \in DOMAIN remote_state :
            /\ f \notin DOMAIN state_remote
            /\ (FullPath => f \notin DOMAIN attachments)

\* C38 amended: with the target folder missing the scan does not raise and
\* gives the empty inventory; the diff puts every filename of the remote
\* snapshot in to_delete and nothing in to_add and to_update; outside dry-run
\* one delete request is made for each of them in that run; a name whose
\* request succeeded has lost its remote attachment and its cache entry, and
\* a name whose request failed has the cache entry the cache file gave it.
C38_MissingFolder ==
    /\ obs.raised_at \in RaiseSites \cup {"none"}
    /\ (FolderMissing => local_files = <<>>)
    /\ (FolderMissing /\ DiffKnown) =>
          /\ diff.to_delete = DOMAIN remote_state
          /\ diff.to_add = {} /\ diff.to_update = {}
    /\ (FolderMissing /\ ~args.dry_run /\ DeletesJoined) =>
          /\ DOMAIN delete_futures = DOMAIN remote_state
          /\ \A f \in DOMAIN remote_state :
                /\ calls["delete_attachment"][f] = 1
                /\ delete_futures[f] = "got_True" =>
                      /\ f \notin DOMAIN state_remote
                      /\ (FullPath => f \notin DOMAIN attachments)
                /\ delete_futures[f] = "got_False" =>
                      (f \in DOMAIN state_remote <=> f \in DOMAIN cache_file.content)

\* the deletes of a run that met no target folder are over, one of them
\* succeeded
C38_Witness ==
    /\ FolderMissing /\ ~args.dry_run /\ pc = "uploading"
    /\ \E f \in DOMAIN remote_state : delete_futures[f] = "got_True"

\* ---------------------------------------------------------------------
\* C39: single-project watch mode
\* ---------------------------------------------------------------------
\* the timer thread makes the callback in this step
CallbackMade == cb'.n # cb.n

C39_Step ==
    (CallbackMade /\ app_sync_lock = "free") =>
        /\ watcher_syncs' = watcher_syncs + 1
        /\ app_sync_lock' = "free"

\* C39: in SyncApplication.run_watch, each time FileMonitor's debounce makes
\* its callback while sync_lock is free, _on_file_change invokes
\* engine.run_sync(is_startup=False) exactly once and the lock is free again
\* afterwards.
C39_CallbackSyncs == [][C39_Step]_all_vars

\* what the code does: no callback of the monitor ever reaches run_sync, each
\* ends in the error that _fire_if_idle prints, and the lock is never taken
C39_NeverSyncs ==
    /\ watcher_syncs = 0
    /\ app_sync_lock = "free"
    /\ app_pc # "none" => callback_errors = cb.n

\* ---------------------------------------------------------------------
\* C40: multi-project watch mode and a failed initial sync
\* ---------------------------------------------------------------------
\* C40: in run_all_watch, start_monitoring is called only for projects whose
\* run_initial_sync returned true, so a project whose startup sync failed has
\* no monitor started and no watcher-triggered run_sync.
C40_OnlySyncedMonitored ==
    mgr_pc # "none" =>
        \A p \in Projects :
            (monitors[p] # "none" \/ watcher_runs[p] > 0) => initial_ok[p] = "True"

\* what the code does: once the second loop is over, every project whose
\* start_monitoring did not raise has a monitor, whatever its initial sync
\* returned
C40_FailedProjectMonitored ==
    /\ mgr_pc = "sleeping"
    /\ \E p \in Projects :
          initial_ok[p] = "False" /\ monitors[p] = "started" /\ watcher_runs[p] > 0

=============================================================================
